---- MODULE Spec2Model ----
(***************************************************************************)
(* Repository-data aggregation pipeline of code-vibe:                      *)
(*   - GitHubService (server/services/github.ts): paginated collectors,    *)
(*     count estimators, getRepositoryTotals, getRepositoryDetails;       *)
(*   - MemStorage (server/storage.ts): the analysis record store.          *)
(* The upstream hosting API is the environment: a listing of n items is    *)
(* the sequence of item ids 1..n, served in pages of at most per_page      *)
(* items, page 1 carrying a Link header when more pages exist.             *)
(***************************************************************************)
EXTENDS Integers, Sequences, FiniteSets, TLC

VARIABLES
    up,         \* the upstream repository (sizes of its listings, PR marking)
    col,        \* one running collector (getCommits / getIssues / ...)
    status,     \* aggregation: task name -> "idle" | "pending" | "settled"
    seqs,       \* aggregation: collection task -> returned item sequence
    counts,     \* aggregation: estimator task -> returned count
    failedAt,   \* aggregation: task -> index of its request that failed (0: none)
    repoData,   \* getRepositoryTotals: "none" | "data" | "empty" ({ data: {} })
    totals,     \* getRepositoryTotals: the returned totals object
    call,       \* the awaited top-level call: entry point, state, fault budget
    repositoryAnalyses, \* MemStorage.repositoryAnalyses, in insertion order
    clock,      \* MemStorage: source of new Date() / randomUUID()
    lastWrite,  \* store: the last write applied (operation, repository, payload)
    repositories, \* MemStorage.repositories, in insertion order
    reqs,       \* select route: request -> position in the handler and locals
    graph,      \* Neo4j: the nodes and relationships of the database
    firstRun,   \* the result of the previous getRepositoryTotals call
    answer,     \* GET /api/repositories/:id/analysis: the response sent
    auth,       \* OAuth routes: the session, the users, the last response
    chat        \* message route: conversations, messages, the calls made

vars == <<up, col, status, seqs, counts, failedAt, repoData, totals, call,
          repositoryAnalyses, clock, lastWrite, repositories, reqs, graph,
          firstRun, answer, auth, chat>>

colVars == <<col>>
aggVars == <<status, seqs, counts, failedAt, repoData, totals, call>>
storeVars == <<repositoryAnalyses, clock, lastWrite>>
routeVars == <<repositories, reqs>>
graphVars == <<graph>>
runVars == <<firstRun>>
appVars == <<answer, auth, chat>>

-----------------------------------------------------------------------------
(* Bounds of the model *)

\* upstream listings have up to MaxListingPages full pages plus a partial one
MaxListingPages == 6
\* failing upstream requests injected into one getRepositoryDetails call
MaxFaults == 1
\* writes applied to the analysis store
MaxWrites == 3
\* select requests, any number of them in flight together
MaxSelects == 2
\* requests handled by the OAuth routes
MaxAuthRequests == 3
\* requests handled by the conversation routes
MaxChatRequests == 4

(* Program constants *)

PerPage == 100
ReleasesPerPage == 50
CommitsMaxPages == 3
IssuesMaxPages == 5
ContributorsMaxPages == 5
CommitLargeRepoPages == 50
ContributorLargeRepoPages == 10
IssueLargeRepoPages == 20
OpenIssueLargeRepoPages == 10

-----------------------------------------------------------------------------
(* Arithmetic helpers *)

Min(a, b) == IF a < b THEN a ELSE b
Max(a, b) == IF a > b THEN a ELSE b
CeilDiv(a, b) == (a + b - 1) \div b
\* Math.round of the non-negative rational num/den (half rounds up)
Round(num, den) == (2 * num + den) \div (2 * den)

-----------------------------------------------------------------------------
(* The upstream hosting API *)

\* A run of consecutive items of a listing, ids first+1 .. first+len in
\* upstream order.  The data of a page is one run; an array of items is the
\* sequence of the non-empty runs pushed into it.
Run(first, len) == [first |-> first, len |-> len]

IdsOf(run) == (run.first + 1)..(run.first + run.len)

\* the break on a short page taken before the push: its items are lost
PushFullPagesOnly(array, data) ==
    IF data.len < PerPage THEN array ELSE Append(array, data)

\* array.push(...data)
Push(array, data) == IF data.len = 0 THEN array ELSE Append(array, data)

\* array.length
RECURSIVE Length(_)
Length(array) ==
    IF array = << >> THEN 0 ELSE Head(array).len + Length(Tail(array))

\* the ids held by an array
ItemIds(array) == UNION {IdsOf(array[k]) : k \in 1..Len(array)}

\* item i of an issues listing carries the pull_request marker
IsPR(u, i) == (i % 10) < u.prTenths

\* Link header of a page: the "next" and "last" links, absent on the last page
LinkHeader(n, perPage, page) ==
    LET last == CeilDiv(n, perPage) IN
    IF page < last
    THEN << [rel |-> "next", page |-> page + 1], [rel |-> "last", page |-> last] >>
    ELSE << >>

\* response of a list request: at most perPage items of the listing of n items
ListPage(n, perPage, page) ==
    LET first == (page - 1) * perPage
        len == Max(0, Min(perPage, n - first))
    IN [data |-> Run(first, len), link |-> LinkHeader(n, perPage, page)]

\* linkHeader.match(/page=(\d+)>; rel="last"/) then parseInt: 0 when no match
LastPageOf(link) ==
    LET hits == {k \in 1..Len(link) : link[k].rel = "last"} IN
    IF hits = {} THEN 0
    ELSE link[CHOOSE k \in hits : \A j \in hits : k <= j].page

\* the listing a collector or estimator reads
ListingSize(u, kind) ==
    CASE kind = "commits" -> u.commits
      [] kind = "issues" -> u.issues
      [] kind = "openIssues" -> u.open
      [] kind = "contributors" -> u.contributors
      [] kind = "pullRequests" -> u.pulls
      [] kind = "releases" -> u.releases

Upstream(c, k, i, o, t, p, r) ==
    [commits |-> c, contributors |-> k, issues |-> i, open |-> o,
     prTenths |-> t, pulls |-> p, releases |-> r,
     stargazers_count |-> 7, forks_count |-> 2, watchers_count |-> 5]

\* a filter that keeps every item
ActualIssuesUnfiltered(u, data) == [len |-> data.len]

\* data.filter(issue => !issue.pull_request): the items of a page that do
\* not carry the pull_request marker; the code only takes its length
ActualIssues(u, data) ==
    [len |-> Cardinality({i \in IdsOf(data) : ~IsPR(u, i)})]

\* sizes around every page boundary
ListingSizes == {PerPage * k + d : k \in 0..MaxListingPages, d \in {0, 1, 50, 99}}

-----------------------------------------------------------------------------
(* Paginated collectors: getCommits, getIssues, getContributors *)

\* a loop guard off by one: page <= maxPages + 1
MaxPagesOffByOne(kind) ==
    CASE kind = "commits" -> CommitsMaxPages + 1
      [] kind = "issues" -> IssuesMaxPages + 1
      [] kind = "contributors" -> ContributorsMaxPages + 1

MaxPagesOf(kind) ==
    CASE kind = "commits" -> CommitsMaxPages
      [] kind = "issues" -> IssuesMaxPages
      [] kind = "contributors" -> ContributorsMaxPages

NewCollector(kind) ==
    [kind |-> kind, page |-> 1, items |-> << >>, status |-> "running",
     result |-> << >>, threw |-> FALSE, failedAt |-> 0, requests |-> << >>]

\* a catch block that logs and rethrows instead of returning []
CollectorRethrow(c) ==
    [c EXCEPT !.status = "returned", !.result = << >>, !.threw = TRUE,
              !.failedAt = c.page]

\* the catch block of a collector: log, return []
CollectorCatch(c) ==
    [c EXCEPT !.status = "returned", !.result = << >>, !.threw = FALSE,
              !.failedAt = c.page]

\* an iteration without the break on a short page: the loop runs to maxPages
CollectorPageNoBreak(u, c, fails) ==
    LET asked == [c EXCEPT !.requests = Append(@, c.page)] IN
    IF fails THEN CollectorCatch(asked)
    ELSE
      LET response == ListPage(ListingSize(u, c.kind), PerPage, c.page)
          pushed == Push(c.items, response.data)
      IN IF c.page + 1 > MaxPagesOf(c.kind)
         THEN [asked EXCEPT !.items = pushed, !.status = "returned",
                            !.result = pushed, !.page = c.page + 1]
         ELSE [asked EXCEPT !.items = pushed, !.page = c.page + 1]

\* one iteration of the while loop: request c.page, push, break or page++
CollectorPage(u, c, fails) ==
    LET asked == [c EXCEPT !.requests = Append(@, c.page)] IN
    IF fails THEN CollectorCatch(asked)
    ELSE
      LET response == ListPage(ListingSize(u, c.kind), PerPage, c.page)
          pushed == Push(c.items, response.data)
      IN IF response.data.len < PerPage \/ c.page + 1 > MaxPagesOf(c.kind)
         THEN [asked EXCEPT !.items = pushed, !.status = "returned",
                            !.result = pushed,
                            !.page = IF response.data.len < PerPage
                                     THEN c.page ELSE c.page + 1]
         ELSE [asked EXCEPT !.items = pushed, !.page = c.page + 1]

\* single bounded listings: getPullRequests (per_page 100), getReleases (50)
SingleListing(u, kind, perPage, fails) ==
    LET asked == [NewCollector(kind) EXCEPT !.requests = <<1>>] IN
    IF fails THEN CollectorCatch(asked)
    ELSE LET response == ListPage(ListingSize(u, kind), perPage, 1) IN
         [asked EXCEPT !.items = Push(<< >>, response.data),
                       !.result = Push(<< >>, response.data),
                       !.status = "returned"]

getPullRequests(u, fails) == SingleListing(u, "pullRequests", PerPage, fails)

getReleases(u, fails) == SingleListing(u, "releases", ReleasesPerPage, fails)

\* a collector run to completion; its failAt-th request fails (0: none does)
RECURSIVE RunCollector(_, _, _)
RunCollector(u, c, failAt) ==
    IF c.status = "returned" THEN c
    ELSE RunCollector(u, CollectorPage(u, c, c.page = failAt), failAt)

getCommits(u, failAt) == RunCollector(u, NewCollector("commits"), failAt)

getIssues(u, failAt) == RunCollector(u, NewCollector("issues"), failAt)

getContributors(u, failAt) == RunCollector(u, NewCollector("contributors"), failAt)

-----------------------------------------------------------------------------
(* Count estimators.  Each issues its requests one after the other; failAt  *)
(* is the index of the request that fails (0: none).  The result records    *)
(* the returned value, whether an exception escaped, how many requests were *)
(* issued, which one failed and the return statement that produced it.      *)

Counted(value, requests, failed, path) ==
    [value |-> value, threw |-> FALSE, requests |-> requests,
     failedAt |-> failed, path |-> path]

\* a commit count that takes the last page for a full one
getAccurateCommitCountFullPages(u, failAt) ==
    LET firstResponse == ListPage(u.commits, PerPage, 1)
        lastPage == LastPageOf(firstResponse.link)
    IN IF failAt = 1 THEN Counted(0, 1, 1, "catch")
       ELSE IF lastPage # 0
       THEN IF lastPage > CommitLargeRepoPages
            THEN Counted(lastPage * 95, 1, 0, "estimate")
            ELSE IF failAt = 2 THEN Counted(0, 2, 2, "catch")
            ELSE Counted(lastPage * 100, 2, 0, "lastPage")
       ELSE Counted(firstResponse.data.len, 1, 0, "firstPage")

getAccurateCommitCount(u, failAt) ==
    LET firstResponse == ListPage(u.commits, PerPage, 1)
        lastPage == LastPageOf(firstResponse.link)
    IN IF failAt = 1 THEN Counted(0, 1, 1, "catch")
       ELSE IF lastPage # 0
       THEN IF lastPage > CommitLargeRepoPages
            THEN Counted(lastPage * 95, 1, 0, "estimate")
            ELSE IF failAt = 2 THEN Counted(0, 2, 2, "catch")
            ELSE Counted((lastPage - 1) * 100
                           + ListPage(u.commits, PerPage, lastPage).data.len,
                         2, 0, "lastPage")
       ELSE Counted(firstResponse.data.len, 1, 0, "firstPage")

\* a contributor count without the large-repository branch: the last page is
\* requested whatever the page count
getAccurateContributorCountAlwaysLastPage(u, failAt) ==
    LET response == ListPage(u.contributors, PerPage, 1)
        lastPage == LastPageOf(response.link)
    IN IF failAt = 1 THEN Counted(0, 1, 1, "catch")
       ELSE IF lastPage # 0
       THEN IF failAt = 2 THEN Counted(lastPage * 90, 2, 2, "innerCatch")
            ELSE Counted((lastPage - 1) * 100
                           + ListPage(u.contributors, PerPage, lastPage).data.len,
                         2, 0, "lastPage")
       ELSE Counted(response.data.len, 1, 0, "firstPage")

getAccurateContributorCount(u, failAt) ==
    LET response == ListPage(u.contributors, PerPage, 1)
        lastPage == LastPageOf(response.link)
    IN IF failAt = 1 THEN Counted(0, 1, 1, "catch")
       ELSE IF lastPage # 0
       THEN IF lastPage > ContributorLargeRepoPages
            THEN Counted((lastPage - 1) * 80 + 50, 1, 0, "estimate")
            ELSE IF failAt = 2 THEN Counted(lastPage * 90, 2, 2, "innerCatch")
            ELSE Counted((lastPage - 1) * 100
                           + ListPage(u.contributors, PerPage, lastPage).data.len,
                         2, 0, "lastPage")
       ELSE Counted(response.data.len, 1, 0, "firstPage")

\* an issue count without its outer try/catch: a failing first request
\* rejects the estimator
getAccurateIssueCountUncaught(u, failAt) ==
    LET response == ListPage(u.issues, PerPage, 1)
        lastPage == LastPageOf(response.link)
    IN IF failAt = 1
       THEN [value |-> 0, threw |-> TRUE, requests |-> 1, failedAt |-> 1,
             path |-> "throw"]
       ELSE IF lastPage # 0
       THEN IF lastPage > IssueLargeRepoPages
            THEN Counted(lastPage * 85, 1, 0, "estimate")
            ELSE IF failAt = 2 THEN Counted(lastPage * 90, 2, 2, "innerCatch")
            ELSE Counted((lastPage - 1) * 100
                           + ListPage(u.issues, PerPage, lastPage).data.len,
                         2, 0, "lastPage")
       ELSE Counted(response.data.len, 1, 0, "firstPage")

getAccurateIssueCount(u, failAt) ==
    LET response == ListPage(u.issues, PerPage, 1)
        lastPage == LastPageOf(response.link)
    IN IF failAt = 1 THEN Counted(0, 1, 1, "catch")
       ELSE IF lastPage # 0
       THEN IF lastPage > IssueLargeRepoPages
            THEN Counted(lastPage * 85, 1, 0, "estimate")
            ELSE IF failAt = 2 THEN Counted(lastPage * 90, 2, 2, "innerCatch")
            ELSE Counted((lastPage - 1) * 100
                           + ListPage(u.issues, PerPage, lastPage).data.len,
                         2, 0, "lastPage")
       ELSE Counted(response.data.len, 1, 0, "firstPage")

\* the result of an estimator that logs the pages it requested
CountedPages(value, pages, failed, path) ==
    [value |-> value, threw |-> FALSE, requests |-> Len(pages),
     failedAt |-> failed, path |-> path, pages |-> pages]

\* the for loop of getAccurateOpenIssuesCount over pages 2..min(lastPage, 10);
\* asked are the pages requested so far
RECURSIVE OpenIssuesPages(_, _, _, _, _, _)
OpenIssuesPages(u, lastPage, page, totalOpenIssues, failAt, asked) ==
    IF page > Min(lastPage, 10)
    THEN CountedPages(totalOpenIssues, asked, 0, "allPages")
    ELSE IF failAt = page
    THEN CountedPages(totalOpenIssues
                        + Round((lastPage - page + 1) * 100 * totalOpenIssues,
                                (page - 1) * 100),
                      Append(asked, page), page, "innerCatch")
    ELSE LET pageResponse == ListPage(u.open, PerPage, page)
             pageIssues == ActualIssues(u, pageResponse.data)
         IN OpenIssuesPages(u, lastPage, page + 1,
                            totalOpenIssues + pageIssues.len, failAt,
                            Append(asked, page))

getAccurateOpenIssuesCount(u, failAt) ==
    LET response == ListPage(u.open, PerPage, 1)
        actualIssues == ActualIssues(u, response.data)
        lastPage == LastPageOf(response.link)
    IN IF failAt = 1 THEN CountedPages(0, <<1>>, 1, "catch")
       ELSE IF lastPage # 0
       THEN IF lastPage > OpenIssueLargeRepoPages
            THEN CountedPages(Round(lastPage * 100 * actualIssues.len * 9,
                                    response.data.len * 10),
                              <<1>>, 0, "estimate")
            ELSE OpenIssuesPages(u, lastPage, 2, actualIssues.len, failAt, <<1>>)
       ELSE CountedPages(actualIssues.len, <<1>>, 0, "firstPage")

-----------------------------------------------------------------------------
(* Specification of one collector call, page request by page request *)

IdleAgg ==
    /\ status = << >>
    /\ seqs = << >>
    /\ counts = << >>
    /\ failedAt = << >>
    /\ repoData = "none"
    /\ totals = [state |-> "none"]
    /\ call = [entry |-> "none", state |-> "idle", faults |-> 0]

IdleStore ==
    /\ repositoryAnalyses = << >>
    /\ clock = 0
    /\ lastWrite = [op |-> "none"]

IdleCollector == col = [kind |-> "none", status |-> "idle"]

IdleRoute ==
    /\ repositories = << >>
    /\ reqs = << >>

IdleGraph ==
    graph = [nodes |-> {}, rels |-> {},
             last |-> [op |-> "none", namespace |-> "", threw |-> FALSE,
                       failedAt |-> 0, sessionOpen |-> FALSE,
                       found |-> [nodes |-> {}, rels |-> {}]]]

IdleRun == firstRun = [state |-> "none"]

IdleAnswer == answer = [status |-> 0]

IdleAuth == auth = [state |-> "none"]

IdleChat == chat = [state |-> "none"]

IdleApp ==
    /\ IdleAnswer
    /\ IdleAuth
    /\ IdleChat

CollectInit ==
    /\ \E n \in ListingSizes : up = Upstream(n, n, n, n, 3, n, n)
    /\ \E kind \in {"commits", "issues", "contributors", "pullRequests", "releases"} :
          col = NewCollector(kind)
    /\ IdleAgg
    /\ IdleStore
    /\ IdleRoute
    /\ IdleGraph
    /\ IdleRun
    /\ IdleApp

CollectorFetchPage ==
    /\ col.status = "running"
    /\ col.kind \in {"commits", "issues", "contributors"}
    /\ \E fails \in BOOLEAN : col' = CollectorPage(up, col, fails)
    /\ UNCHANGED <<up, aggVars, storeVars, routeVars, graphVars, runVars, appVars>>

PullRequestsFetch ==
    /\ col.status = "running"
    /\ col.kind = "pullRequests"
    /\ \E fails \in BOOLEAN : col' = getPullRequests(up, fails)
    /\ UNCHANGED <<up, aggVars, storeVars, routeVars, graphVars, runVars, appVars>>

ReleasesFetch ==
    /\ col.status = "running"
    /\ col.kind = "releases"
    /\ \E fails \in BOOLEAN : col' = getReleases(up, fails)
    /\ UNCHANGED <<up, aggVars, storeVars, routeVars, graphVars, runVars, appVars>>

CollectNext == CollectorFetchPage \/ PullRequestsFetch \/ ReleasesFetch

SpecCollect == CollectInit /\ [][CollectNext]_vars

-----------------------------------------------------------------------------
(* getRepositoryDetails: seven tasks joined by Promise.all.  A task shares  *)
(* no state with its siblings, so each settles in one step with the value  *)
(* its code computes; Promise.all rejects as soon as one of its tasks      *)
(* rejects and resolves when all have settled.                             *)

Collections == {"commits", "pullRequests", "issues", "releases", "contributors"}
Estimators == {"totalCommits", "totalContributors", "totalIssues", "openIssues"}
DetailTasks == {"repoDetails", "totals"} \cup Collections
Tasks == DetailTasks \cup Estimators \cup {"repoData"}

\* scenarios of one whole aggregation
DetailUpstreams ==
    { Upstream(0, 0, 0, 0, 0, 0, 0),
      Upstream(150, 120, 250, 130, 3, 40, 60),
      Upstream(PerPage * MaxListingPages + 50, 1150, 2150, 1150, 3, 150, 10) }

\* listing sizes around every page boundary up to the bound and around the
\* page threshold of an estimator
SizesAround(threshold) ==
    ListingSizes \cup
    {PerPage * k + d : k \in {threshold - 1, threshold, threshold + 1},
                       d \in {0, 1, 50, 99}}

\* scenarios of one getRepositoryTotals call: one listing varies at a time
TotalsUpstreams ==
    {Upstream(n, 120, 250, 130, 3, 0, 0) : n \in SizesAround(CommitLargeRepoPages)}
    \cup {Upstream(150, n, 250, 130, 3, 0, 0) :
             n \in SizesAround(ContributorLargeRepoPages)}
    \cup {Upstream(150, 50, n, Min(n, o), t, 0, 0) :
             n \in SizesAround(IssueLargeRepoPages),
             o \in {0, 250, PerPage * (IssueLargeRepoPages + 2)},
             t \in {0, 3, 10}}
    \cup {Upstream(150, 50, PerPage * (IssueLargeRepoPages + 2), o, t, 0, 0) :
             o \in SizesAround(OpenIssueLargeRepoPages), t \in {0, 3, 10}}

\* a failing request may still be injected into the running call
CanFail == call.faults < MaxFaults

AllSettled(ts) == \A t \in ts : status[t] = "settled"

\* the catch block of getRepositoryDetails: throw new Error(...)
DetailsCatch(c) == [c EXCEPT !.state = "threw"]

\* the catch block of getRepositoryTotals: return the all-zero totals
TotalsCatch ==
    [state |-> "returned", caught |-> TRUE,
     totalCommits |-> 0, totalContributors |-> 0, totalIssues |-> 0,
     openIssues |-> 0, stars |-> 0, forks |-> 0, watchers |-> 0]

\* the return statement of getRepositoryTotals; x || 0 of an absent field is 0
TotalsReturn(u, data, cnt) ==
    [state |-> "returned", caught |-> FALSE,
     totalCommits |-> cnt["totalCommits"],
     totalContributors |-> cnt["totalContributors"],
     totalIssues |-> cnt["totalIssues"],
     openIssues |-> cnt["openIssues"],
     stars |-> IF data = "data" THEN u.stargazers_count ELSE 0,
     forks |-> IF data = "data" THEN u.forks_count ELSE 0,
     watchers |-> IF data = "data" THEN u.watchers_count ELSE 0]

\* bookkeeping of a settled task of getRepositoryDetails' Promise.all
DetailsSettle(c, failed, threw) ==
    LET counted == [c EXCEPT !.faults = IF failed THEN @ + 1 ELSE @] IN
    IF threw /\ c.entry = "details" /\ c.state = "pending"
    THEN DetailsCatch(counted)
    ELSE counted

\* this.octokit.rest.repos.get({ owner, repo }) inside getRepositoryDetails
RepoDetailsGet ==
    /\ status["repoDetails"] = "pending"
    /\ \E fails \in BOOLEAN :
          /\ fails => CanFail
          /\ failedAt' = [failedAt EXCEPT !["repoDetails"] = IF fails THEN 1 ELSE 0]
          /\ call' = DetailsSettle(call, fails, fails)
    /\ status' = [status EXCEPT !["repoDetails"] = "settled"]
    /\ UNCHANGED <<up, col, seqs, counts, repoData, totals, storeVars, routeVars, graphVars, runVars, appVars>>

\* a collection task settles with the collector's result r
SettleCollection(t, r) ==
    /\ status[t] = "pending"
    /\ r.failedAt # 0 => CanFail
    /\ status' = [status EXCEPT ![t] = "settled"]
    /\ seqs' = [seqs EXCEPT ![t] = r.result]
    /\ failedAt' = [failedAt EXCEPT ![t] = r.failedAt]
    /\ call' = DetailsSettle(call, r.failedAt # 0, r.threw)
    /\ UNCHANGED <<up, col, counts, repoData, totals, storeVars, routeVars, graphVars, runVars, appVars>>

CommitsSettle ==
    \E f \in 0..CommitsMaxPages :
        \E r \in {getCommits(up, f)} : r.failedAt = f /\ SettleCollection("commits", r)

PullRequestsSettle ==
    \E fails \in BOOLEAN :
        \E r \in {getPullRequests(up, fails)} : SettleCollection("pullRequests", r)

IssuesSettle ==
    \E f \in 0..IssuesMaxPages :
        \E r \in {getIssues(up, f)} : r.failedAt = f /\ SettleCollection("issues", r)

ReleasesSettle ==
    \E fails \in BOOLEAN :
        \E r \in {getReleases(up, fails)} : SettleCollection("releases", r)

ContributorsSettle ==
    \E f \in 0..ContributorsMaxPages :
        \E r \in {getContributors(up, f)} : r.failedAt = f /\ SettleCollection("contributors", r)

\* the outcomes of an estimator over every choice of its failing request
CommitCountRuns(u) == {getAccurateCommitCount(u, f) : f \in 0..2}

ContributorCountRuns(u) == {getAccurateContributorCount(u, f) : f \in 0..2}

IssueCountRuns(u) == {getAccurateIssueCount(u, f) : f \in 0..2}

OpenIssuesCountRuns(u) ==
    {getAccurateOpenIssuesCount(u, f) : f \in 0..OpenIssueLargeRepoPages}

\* getRepositoryTotals, given whether its own repos.get fails (it is caught:
\* .catch(() => ({ data: {} }))) and the outcomes of the four estimators it
\* joins with Promise.all; an exception escaping an estimator would reject
\* Promise.all and land in the catch block
getRepositoryTotals(u, repoFails, rc, rk, ri, ro) ==
    LET data == IF repoFails THEN "empty" ELSE "data"
        cnt == [e \in Estimators |->
                  CASE e = "totalCommits" -> rc.value
                    [] e = "totalContributors" -> rk.value
                    [] e = "totalIssues" -> ri.value
                    [] e = "openIssues" -> ro.value]
        failed == [e \in Estimators \cup {"repoData"} |->
                  CASE e = "totalCommits" -> rc.failedAt
                    [] e = "totalContributors" -> rk.failedAt
                    [] e = "totalIssues" -> ri.failedAt
                    [] e = "openIssues" -> ro.failedAt
                    [] e = "repoData" -> IF repoFails THEN 1 ELSE 0]
    IN [repoData |-> data, counts |-> cnt, failedAt |-> failed,
        faults |-> Cardinality({e \in DOMAIN failed : failed[e] # 0}),
        totals |-> IF rc.threw \/ rk.threw \/ ri.threw \/ ro.threw
                   THEN TotalsCatch
                   ELSE TotalsReturn(u, data, cnt)]

\* the getRepositoryTotals task settles (it never rejects); when it is the
\* entry point the call returns
TotalsSettle ==
    /\ status["totals"] = "pending"
    /\ \E ro \in OpenIssuesCountRuns(up), ri \in IssueCountRuns(up),
          rk \in ContributorCountRuns(up), rc \in CommitCountRuns(up),
          repoFails \in BOOLEAN :
         \E r \in {getRepositoryTotals(up, repoFails, rc, rk, ri, ro)} :
            /\ call.entry = "totals" \/ call.faults + r.faults <= MaxFaults
            /\ repoData' = r.repoData
            /\ counts' = r.counts
            /\ totals' = r.totals
            /\ failedAt' = [t \in Tasks |->
                              IF t \in DOMAIN r.failedAt THEN r.failedAt[t]
                              ELSE failedAt[t]]
            /\ call' = [call EXCEPT !.faults = @ + r.faults,
                                    !.state = IF call.entry = "totals"
                                              THEN "returned" ELSE @]
    /\ status' = [t \in Tasks |->
                    IF t \in Estimators \cup {"repoData", "totals"}
                    THEN "settled" ELSE status[t]]
    /\ UNCHANGED <<up, col, seqs, storeVars, routeVars, graphVars, runVars, appVars>>

\* Promise.all of getRepositoryDetails resolves: the aggregate is returned
DetailsJoin ==
    /\ call.entry = "details"
    /\ call.state = "pending"
    /\ AllSettled(DetailTasks)
    /\ call' = [call EXCEPT !.state = "returned"]
    /\ UNCHANGED <<up, col, status, seqs, counts, failedAt, repoData, totals, storeVars, routeVars, graphVars, runVars, appVars>>

\* the aggregate document returned by getRepositoryDetails
Aggregate ==
    [commits |-> seqs["commits"], pullRequests |-> seqs["pullRequests"],
     issues |-> seqs["issues"], releases |-> seqs["releases"],
     contributors |-> seqs["contributors"], totals |-> totals]

AggInit(entry, started) ==
    /\ status = [t \in Tasks |-> IF t \in started THEN "pending" ELSE "idle"]
    /\ seqs = [t \in Collections |-> << >>]
    /\ counts = [e \in Estimators |-> 0]
    /\ failedAt = [t \in Tasks |-> 0]
    /\ repoData = "none"
    /\ totals = [state |-> "none"]
    /\ call = [entry |-> entry, state |-> "pending", faults |-> 0]

DetailsInit ==
    /\ up \in DetailUpstreams
    /\ AggInit("details", DetailTasks \cup {"repoData"})
    /\ IdleCollector
    /\ IdleStore
    /\ IdleRoute
    /\ IdleGraph
    /\ IdleRun
    /\ IdleApp

TotalsInit ==
    /\ up \in TotalsUpstreams
    /\ AggInit("totals", {"totals", "repoData"})
    /\ IdleCollector
    /\ IdleStore
    /\ IdleRoute
    /\ IdleGraph
    /\ IdleRun
    /\ IdleApp

TotalsNext == TotalsSettle

DetailsNext ==
    \/ RepoDetailsGet
    \/ CommitsSettle
    \/ PullRequestsSettle
    \/ IssuesSettle
    \/ ReleasesSettle
    \/ ContributorsSettle
    \/ TotalsSettle
    \/ DetailsJoin

SpecTotals == TotalsInit /\ [][TotalsNext]_vars

SpecDetails == DetailsInit /\ [][DetailsNext]_vars

(* getRepositoryDetails against repositories at and around the page       *)
(* thresholds of the estimators                                            *)

BudgetUpstreams ==
    { Upstream(0, 0, 0, 0, 0, 0, 0),
      Upstream(PerPage, PerPage, PerPage, PerPage, 3, PerPage, ReleasesPerPage),
      Upstream(650, 950, 1950, 950, 3, 150, 60),
      Upstream(PerPage * CommitLargeRepoPages, PerPage * ContributorLargeRepoPages,
               PerPage * IssueLargeRepoPages, PerPage * OpenIssueLargeRepoPages,
               3, 150, 60),
      Upstream(PerPage * CommitLargeRepoPages + 1,
               PerPage * ContributorLargeRepoPages + 1,
               PerPage * IssueLargeRepoPages + 1,
               PerPage * OpenIssueLargeRepoPages + 1, 3, 150, 60) }

BudgetInit ==
    /\ up \in BudgetUpstreams
    /\ AggInit("details", DetailTasks \cup {"repoData"})
    /\ IdleCollector
    /\ IdleStore
    /\ IdleRoute
    /\ IdleGraph
    /\ IdleRun
    /\ IdleApp

SpecBudget == BudgetInit /\ [][DetailsNext]_vars

(* Two getRepositoryTotals calls in immediate succession against the same  *)
(* upstream; the failing requests of both come out of one fault budget.    *)

\* the first call has returned and the second one starts
TotalsAgain ==
    /\ call.entry = "twice"
    /\ status["totals"] = "settled"
    /\ firstRun.state = "none"
    /\ firstRun' = [state |-> "returned", totals |-> totals, failedAt |-> failedAt]
    /\ status' = [t \in Tasks |->
                    IF t \in Estimators \cup {"repoData", "totals"}
                    THEN "pending" ELSE status[t]]
    /\ failedAt' = [t \in Tasks |-> 0]
    /\ counts' = [e \in Estimators |-> 0]
    /\ repoData' = "none"
    /\ totals' = [state |-> "none"]
    /\ UNCHANGED <<up, col, seqs, call, storeVars, routeVars, graphVars, appVars>>

TotalsTwiceInit ==
    /\ up \in TotalsUpstreams
    /\ AggInit("twice", {"totals", "repoData"})
    /\ IdleCollector
    /\ IdleStore
    /\ IdleRoute
    /\ IdleGraph
    /\ IdleRun
    /\ IdleApp

TotalsTwiceNext == TotalsSettle \/ TotalsAgain

SpecTotalsTwice == TotalsTwiceInit /\ [][TotalsTwiceNext]_vars

-----------------------------------------------------------------------------
(* MemStorage: the repository-analysis records.  The Map keeps insertion   *)
(* order, so it is the sequence of its values; a record's id is fresh.     *)

RepositoryIds == {"r1", "r2"}

\* the data fields of a RepositoryAnalysis
Fields == {"commits", "pullRequests", "issues", "releases", "contributors",
           "codeMetrics"}

\* the fields a payload supplies: all of them as the select route does, all
\* but one, a few, none
PayloadShapes ==
    {Fields, Fields \ {"codeMetrics"}, {"commits", "issues"}, {}}

\* the payload of the k-th write: every field it supplies holds the value k
Payload(shape, k) == [f \in shape |-> k]

Null == 0
Undefined == [id |-> Null]

\* Array.from(values()).find(analysis => analysis.repositoryId === repositoryId)
getRepositoryAnalysis(analyses, repositoryId) ==
    LET hits == {k \in 1..Len(analyses) : analyses[k].repositoryId = repositoryId}
    IN IF hits = {} THEN Undefined
       ELSE analyses[CHOOSE k \in hits : \A j \in hits : k <= j]

\* { ...insertAnalysis, f: insertAnalysis.f || null, id, lastUpdated }
NewAnalysis(id, repositoryId, insertAnalysis, now) ==
    [f \in Fields \cup {"id", "repositoryId", "lastUpdated"} |->
        CASE f = "id" -> id
          [] f = "repositoryId" -> repositoryId
          [] f = "lastUpdated" -> now
          [] OTHER -> IF f \in DOMAIN insertAnalysis THEN insertAnalysis[f] ELSE Null]

\* a merge with the spreads swapped: { ...updates, ...existing }
MergedAnalysisExistingWins(existing, updates, now) ==
    [f \in DOMAIN existing |->
        IF f = "lastUpdated" THEN now ELSE existing[f]]

\* { ...existing, ...updates, lastUpdated: new Date() }
MergedAnalysis(existing, updates, now) ==
    [f \in DOMAIN existing |->
        IF f = "lastUpdated" THEN now
        ELSE IF f \in DOMAIN updates THEN updates[f] ELSE existing[f]]

\* this.repositoryAnalyses.set(id, analysis): replace in place or append
MapSet(analyses, id, analysis) ==
    IF \E k \in 1..Len(analyses) : analyses[k].id = id
    THEN [k \in 1..Len(analyses) |->
            IF analyses[k].id = id THEN analysis ELSE analyses[k]]
    ELSE Append(analyses, analysis)

createRepositoryAnalysis(repositoryId, insertAnalysis) ==
    /\ clock < MaxWrites
    /\ clock' = clock + 1
    /\ repositoryAnalyses' =
          MapSet(repositoryAnalyses, clock',
                 NewAnalysis(clock', repositoryId, insertAnalysis, clock'))
    /\ lastWrite' = [op |-> "create", repositoryId |-> repositoryId,
                     payload |-> insertAnalysis,
                     before |-> getRepositoryAnalysis(repositoryAnalyses, repositoryId)]
    /\ UNCHANGED <<up, col, aggVars, graphVars, runVars, appVars>>

updateRepositoryAnalysis(repositoryId, updates) ==
    /\ clock < MaxWrites
    /\ clock' = clock + 1
    /\ LET existing == getRepositoryAnalysis(repositoryAnalyses, repositoryId) IN
         /\ repositoryAnalyses' =
               IF existing = Undefined THEN repositoryAnalyses
               ELSE MapSet(repositoryAnalyses, existing.id,
                           MergedAnalysis(existing, updates, clock'))
         /\ lastWrite' = [op |-> "update", repositoryId |-> repositoryId,
                          payload |-> updates, before |-> existing]
    /\ UNCHANGED <<up, col, aggVars, graphVars, runVars, appVars>>

CreateAnalysis ==
    /\ \E r \in RepositoryIds, shape \in PayloadShapes :
          createRepositoryAnalysis(r, Payload(shape, clock + 1))
    /\ UNCHANGED routeVars

UpdateAnalysis ==
    /\ \E r \in RepositoryIds, shape \in PayloadShapes :
          updateRepositoryAnalysis(r, Payload(shape, clock + 1))
    /\ UNCHANGED routeVars

StoreInit ==
    /\ up = Upstream(0, 0, 0, 0, 0, 0, 0)
    /\ IdleCollector
    /\ IdleAgg
    /\ IdleStore
    /\ IdleRoute
    /\ IdleGraph
    /\ IdleRun
    /\ IdleApp

StoreNext == CreateAnalysis \/ UpdateAnalysis

SpecStore == StoreInit /\ [][StoreNext]_vars

-----------------------------------------------------------------------------
(* Neo4jService: the graph mirror.  The database is a set of nodes and a   *)
(* set of relationships.  Every node the service writes carries its label, *)
(* the namespace property and the property its MERGE pattern matches on    *)
(* (key); a relationship names its end nodes by (label, namespace, key).   *)

Node(label, namespace, key, props) ==
    [label |-> label, namespace |-> namespace, key |-> key, props |-> props]

Ref(n) == <<n.label, n.namespace, n.key>>

\* a pattern without the namespace: MATCH (x:Label {<key property>: key})
MatchKeyAnyNamespace(g, label, namespace, key) ==
    {n \in g.nodes : n.label = label /\ n.key = key}

\* MATCH (x:Label {<key property>: key, namespace: $namespace})
MatchKey(g, label, namespace, key) ==
    {n \in g.nodes : n.label = label /\ n.namespace = namespace /\ n.key = key}

\* MATCH (x:Label {<field>: value, namespace: $namespace})
MatchProp(g, label, namespace, field, value) ==
    {n \in g.nodes :
        n.label = label /\ n.namespace = namespace /\ n.props[field] = value}

\* MERGE (x:Label {<key property>: key, namespace: $namespace}) SET x.p = ...
MergeNode(g, label, namespace, key, props) ==
    [g EXCEPT !.nodes =
        (@ \ MatchKey(g, label, namespace, key))
        \cup {Node(label, namespace, key, props)}]

\* MERGE (a)-[:TYPE {props}]->(b) for every row of matched (a, b)
MergeRel(g, type, froms, tos, props) ==
    [g EXCEPT !.rels =
        @ \cup {[type |-> type, from |-> Ref(a), to |-> Ref(b), props |-> props] :
                  a \in froms, b \in tos}]

\* MERGE (x ...) SET ... WITH x MATCH (repo:Repository {id, namespace})
\* MERGE (x)-[:TYPE {props}]->(repo)
MergeInRepository(g, label, namespace, key, props, type, relProps, repoId) ==
    LET merged == MergeNode(g, label, namespace, key, props) IN
    MergeRel(merged, type, MatchKey(merged, label, namespace, key),
             MatchKey(merged, "Repository", namespace, repoId), relProps)

\* for (const item of items) g = Step(g, item)
ForEach(Step(_, _), g, items) ==
    LET iter[k \in 0..Len(items)] ==
            IF k = 0 THEN g ELSE Step(iter[k - 1], items[k])
    IN iter[Len(items)]

NoProps == << >>

\* 2. contributors
GraphContributor(g, namespace, repoId, contributor) ==
    MergeInRepository(g, "Contributor", namespace, contributor.id,
        [login |-> contributor.login, contributions |-> contributor.contributions],
        "CONTRIBUTES_TO", [contributions |-> contributor.contributions], repoId)

\* 3. commits, AUTHORED and COMMITTED
GraphCommit(g, namespace, repoId, commit) ==
    LET g1 == MergeInRepository(g, "Commit", namespace, commit.sha,
                  [message |-> commit.message], "BELONGS_TO", NoProps, repoId)
        g2 == IF commit.author # ""
              THEN MergeRel(g1, "AUTHORED",
                       MatchProp(g1, "Contributor", namespace, "login", commit.author),
                       MatchKey(g1, "Commit", namespace, commit.sha), NoProps)
              ELSE g1
    IN IF commit.committer # "" /\ commit.committer # commit.author
       THEN MergeRel(g2, "COMMITTED",
                MatchProp(g2, "Contributor", namespace, "login", commit.committer),
                MatchKey(g2, "Commit", namespace, commit.sha), NoProps)
       ELSE g2

\* 4. pull requests, OPENED and MERGED_AS
GraphPullRequest(g, namespace, repoId, pr) ==
    LET g1 == MergeInRepository(g, "PullRequest", namespace, pr.id,
                  [number |-> pr.number], "TARGETS", NoProps, repoId)
        g2 == IF pr.user # ""
              THEN MergeRel(g1, "OPENED",
                       MatchProp(g1, "Contributor", namespace, "login", pr.user),
                       MatchKey(g1, "PullRequest", namespace, pr.id), NoProps)
              ELSE g1
    IN IF pr.merge_commit_sha # ""
       THEN MergeRel(g2, "MERGED_AS",
                MatchKey(g2, "PullRequest", namespace, pr.id),
                MatchKey(g2, "Commit", namespace, pr.merge_commit_sha), NoProps)
       ELSE g2

\* 5. issues (pull requests skipped), REPORTED and ASSIGNED_TO
GraphIssue(g, namespace, repoId, issue) ==
    IF issue.pull_request THEN g
    ELSE
      LET g1 == MergeInRepository(g, "Issue", namespace, issue.id,
                    [number |-> issue.number, state |-> issue.state],
                    "REPORTED_IN", NoProps, repoId)
          g2 == IF issue.user # ""
                THEN MergeRel(g1, "REPORTED",
                         MatchProp(g1, "Contributor", namespace, "login", issue.user),
                         MatchKey(g1, "Issue", namespace, issue.id), NoProps)
                ELSE g1
      IN MergeRel(g2, "ASSIGNED_TO",
             UNION {MatchProp(g2, "Contributor", namespace, "login", a) :
                       a \in issue.assignees},
             MatchKey(g2, "Issue", namespace, issue.id), NoProps)

\* 6. releases, PUBLISHED and TAGGED_AT
GraphRelease(g, namespace, repoId, release) ==
    LET g1 == MergeInRepository(g, "Release", namespace, release.id,
                  [tag_name |-> release.tag_name], "RELEASED_FOR", NoProps, repoId)
        g2 == IF release.author # ""
              THEN MergeRel(g1, "PUBLISHED",
                       MatchProp(g1, "Contributor", namespace, "login", release.author),
                       MatchKey(g1, "Release", namespace, release.id), NoProps)
              ELSE g1
    IN IF release.target_commitish # ""
       THEN MergeRel(g2, "TAGGED_AT",
                MatchKey(g2, "Release", namespace, release.id),
                MatchKey(g2, "Commit", namespace, release.target_commitish), NoProps)
       ELSE g2

\* SOLVES for every "closes|fixes|resolves #N" of the body; closes is the
\* set of those N
GraphSolves(g, namespace, pr) ==
    MergeRel(g, "SOLVES",
        MatchKey(g, "PullRequest", namespace, pr.id),
        UNION {MatchProp(g, "Issue", namespace, "number", n) : n \in pr.closes},
        NoProps)

GraphPartOf(g, namespace, pr) ==
    IF pr.head # ""
    THEN MergeRel(g, "PART_OF", MatchKey(g, "Commit", namespace, pr.head),
                  MatchKey(g, "PullRequest", namespace, pr.id), NoProps)
    ELSE g

GraphFile(g, namespace, commit, path) ==
    LET g1 == MergeNode(g, "File", namespace, path, [filename |-> path]) IN
    MergeRel(g1, "MODIFIES", MatchKey(g1, "Commit", namespace, commit.sha),
             MatchKey(g1, "File", namespace, path), NoProps)

GraphFiles(g, namespace, commit) ==
    LET Step(h, path) == GraphFile(h, namespace, commit, path)
    IN ForEach(Step, g, commit.files)

\* issue.milestone is << >> when the issue has none
GraphMilestone(g, namespace, issue) ==
    IF issue.milestone = << >> THEN g
    ELSE LET milestone == issue.milestone[1]
             g1 == MergeNode(g, "Milestone", namespace, milestone.title,
                       [state |-> milestone.state])
         IN MergeRel(g1, "TRACKED_IN", MatchKey(g1, "Issue", namespace, issue.id),
                     MatchKey(g1, "Milestone", namespace, milestone.title),
                     NoProps)

createSemanticRelationships(g, namespace, repositoryData) ==
    LET Solves(h, pr) == GraphSolves(h, namespace, pr)
        PartOf(h, pr) == GraphPartOf(h, namespace, pr)
        Files(h, commit) == GraphFiles(h, namespace, commit)
        Milestone(h, issue) == GraphMilestone(h, namespace, issue)
        g1 == ForEach(Solves, g, repositoryData.pullRequests)
        g2 == ForEach(PartOf, g1, repositoryData.pullRequests)
        g3 == ForEach(Files, g2, repositoryData.commits)
    IN ForEach(Milestone, g3, repositoryData.issues)

\* the transaction function of createRepositoryGraph
RepositoryGraph(g, repositoryData) ==
    LET repoId == repositoryData.repository.id
        repoFullName == repositoryData.repository.full_name
        Contributor(h, c) == GraphContributor(h, repoFullName, repoId, c)
        Commit(h, c) == GraphCommit(h, repoFullName, repoId, c)
        PullRequest(h, pr) == GraphPullRequest(h, repoFullName, repoId, pr)
        Issue(h, i) == GraphIssue(h, repoFullName, repoId, i)
        Release(h, r) == GraphRelease(h, repoFullName, repoId, r)
        g1 == MergeNode(g, "Repository", repoFullName, repoId,
                        [stars |-> repositoryData.repository.stargazers_count])
        g2 == ForEach(Contributor, g1, repositoryData.contributors)
        g3 == ForEach(Commit, g2, repositoryData.commits)
        g4 == ForEach(PullRequest, g3, repositoryData.pullRequests)
        g5 == ForEach(Issue, g4, repositoryData.issues)
        g6 == ForEach(Release, g5, repositoryData.releases)
    IN createSemanticRelationships(g6, repoFullName, repositoryData)

\* MATCH (n {namespace: $namespace}) with the labels left out of the match
\* kept: only the Repository node goes
DeleteRepositoryNodeOnly(g, namespace) ==
    LET gone == {n \in g.nodes : n.namespace = namespace /\ n.label = "Repository"}
    IN [g EXCEPT !.nodes = @ \ gone,
                 !.rels = {r \in @ : \A n \in gone : r.from # Ref(n) /\ r.to # Ref(n)}]

\* MATCH (n {namespace: $namespace}) DETACH DELETE n
DetachDeleteNamespace(g, namespace) ==
    LET gone == {n \in g.nodes : n.namespace = namespace}
    IN [g EXCEPT !.nodes = @ \ gone,
                 !.rels = {r \in @ : \A n \in gone : r.from # Ref(n) /\ r.to # Ref(n)}]

\* what the database holds under a namespace
Under(g, namespace) ==
    [nodes |-> {n \in g.nodes : n.namespace = namespace},
     rels |-> {r \in g.rels : r.from[2] = namespace \/ r.to[2] = namespace}]

\* the transaction function as the sequence of its loop iterations, in the
\* order the code runs them: the Repository node, then one step per
\* contributor, commit, pull request, issue and release, then the steps of
\* createSemanticRelationships
TxSteps(repositoryData) ==
    LET Each(kind, items) ==
            [k \in 1..Len(items) |-> [kind |-> kind, item |-> items[k]]]
    IN <<[kind |-> "Repository", item |-> repositoryData.repository]>>
       \o Each("Contributor", repositoryData.contributors)
       \o Each("Commit", repositoryData.commits)
       \o Each("PullRequest", repositoryData.pullRequests)
       \o Each("Issue", repositoryData.issues)
       \o Each("Release", repositoryData.releases)
       \o Each("Solves", repositoryData.pullRequests)
       \o Each("PartOf", repositoryData.pullRequests)
       \o Each("Files", repositoryData.commits)
       \o Each("Milestone", repositoryData.issues)

\* the tx.run statements of one loop iteration
TxStep(g, repositoryData, step) ==
    LET repoId == repositoryData.repository.id
        repoFullName == repositoryData.repository.full_name
        item == step.item
    IN CASE step.kind = "Repository" ->
              MergeNode(g, "Repository", repoFullName, repoId,
                        [stars |-> repositoryData.repository.stargazers_count])
         [] step.kind = "Contributor" -> GraphContributor(g, repoFullName, repoId, item)
         [] step.kind = "Commit" -> GraphCommit(g, repoFullName, repoId, item)
         [] step.kind = "PullRequest" -> GraphPullRequest(g, repoFullName, repoId, item)
         [] step.kind = "Issue" -> GraphIssue(g, repoFullName, repoId, item)
         [] step.kind = "Release" -> GraphRelease(g, repoFullName, repoId, item)
         [] step.kind = "Solves" -> GraphSolves(g, repoFullName, item)
         [] step.kind = "PartOf" -> GraphPartOf(g, repoFullName, item)
         [] step.kind = "Files" -> GraphFiles(g, repoFullName, item)
         [] step.kind = "Milestone" -> GraphMilestone(g, repoFullName, item)

\* what the transaction has written once its first k steps have run
TxRun(g, repositoryData, k) ==
    LET steps == TxSteps(repositoryData)
        iter[j \in 0..k] ==
            IF j = 0 THEN g ELSE TxStep(iter[j - 1], repositoryData, steps[j])
    IN iter[k]

\* statements sent with session.run: each is committed on its own, and a
\* failure leaves what the earlier ones wrote
RollbackNothing(g, written) == written

\* a managed transaction whose function throws is rolled back: the database
\* is as it was when the transaction began
Rollback(g, written) == g

\* session.executeWrite(async tx => { ... }): the step failAt throws (0: none
\* does, the transaction commits)
executeWrite(g, repositoryData, failAt) ==
    IF failAt = 0
    THEN [graph |-> RepositoryGraph(g, repositoryData), threw |-> FALSE]
    ELSE [graph |-> Rollback(g, TxRun(g, repositoryData, failAt - 1)),
          threw |-> TRUE]

\* this.driver.session() and session.close()
NewSession4j == [open |-> TRUE]
Close(session) == [session EXCEPT !.open = FALSE]

\* one call of the service as the database sees it: the operation, the step
\* that failed, whether the call threw, the state of its session at return,
\* what it found under the namespace, and the call it came after
Called(op, namespace, doc, failedStep, threw, session, g) ==
    [op |-> op, namespace |-> namespace, doc |-> doc, threw |-> threw,
     failedAt |-> failedStep, sessionOpen |-> session.open,
     found |-> Under(g, namespace),
     after |-> [op |-> g.last.op, namespace |-> g.last.namespace,
                threw |-> g.last.threw, found |-> g.last.found]]

\* createRepositoryGraph: try { executeWrite } catch { throw error }
\* finally { session.close() }
createRepositoryGraph(g, repositoryData, failAt) ==
    LET session == NewSession4j
        tx == executeWrite(g, repositoryData, failAt)
    IN [tx.graph EXCEPT
          !.last = Called("create", repositoryData.repository.full_name,
                          repositoryData, failAt, tx.threw, Close(session), g)]

\* deleteRepositoryGraph: one statement in a managed transaction
deleteRepositoryGraph(g, namespace, fails) ==
    LET session == NewSession4j IN
    [(IF fails THEN g ELSE DetachDeleteNamespace(g, namespace)) EXCEPT
        !.last = Called("delete", namespace, << >>, IF fails THEN 1 ELSE 0,
                        fails, Close(session), g)]

\* the repository the upstream knows
UpstreamFullName == "owner/repo"

\* its graph and the graph of a fork (same commits, same contributors)
Namespaces == {UpstreamFullName, "other/fork"}

\* documents of one repository: as first fetched, and as fetched after the
\* repository changed (items gone, items new, properties changed)
GraphDoc(namespace, version) ==
    IF version = "first"
    THEN [repository |-> [id |-> 1, full_name |-> namespace, stargazers_count |-> 7],
          contributors |->
             <<[id |-> 1, login |-> "alice", contributions |-> 10],
               [id |-> 2, login |-> "bob", contributions |-> 3]>>,
          commits |->
             <<[sha |-> "c1", message |-> "m1", author |-> "alice",
                committer |-> "bob", files |-> <<"a.ts">>],
               [sha |-> "c2", message |-> "m2", author |-> "carol",
                committer |-> "", files |-> << >>]>>,
          pullRequests |->
             <<[id |-> 11, number |-> 5, user |-> "bob", merge_commit_sha |-> "c1",
                head |-> "c2", closes |-> {7}]>>,
          issues |->
             <<[id |-> 21, number |-> 7, state |-> "open", pull_request |-> FALSE,
                user |-> "alice", assignees |-> {"bob"},
                milestone |-> <<[title |-> "v1", state |-> "open"]>>],
               [id |-> 22, number |-> 5, state |-> "open", pull_request |-> TRUE,
                user |-> "bob", assignees |-> {},
                milestone |-> <<[title |-> "v2", state |-> "open"]>>]>>,
          releases |->
             <<[id |-> 31, tag_name |-> "1.0", author |-> "alice",
                target_commitish |-> "c1"]>>]
    ELSE [repository |-> [id |-> 1, full_name |-> namespace, stargazers_count |-> 8],
          contributors |->
             <<[id |-> 1, login |-> "alice", contributions |-> 11]>>,
          commits |->
             <<[sha |-> "c1", message |-> "m1", author |-> "alice",
                committer |-> "", files |-> <<"b.ts">>],
               [sha |-> "c3", message |-> "m3", author |-> "alice",
                committer |-> "alice", files |-> << >>]>>,
          pullRequests |->
             <<[id |-> 11, number |-> 5, user |-> "alice", merge_commit_sha |-> "",
                head |-> "c3", closes |-> {}]>>,
          issues |->
             <<[id |-> 21, number |-> 7, state |-> "closed", pull_request |-> FALSE,
                user |-> "", assignees |-> {"alice"}, milestone |-> << >>]>>,
          releases |-> << >>]

GraphDocs == {GraphDoc(ns, v) : ns \in Namespaces, v \in {"first", "changed"}}

\* the steps at which a call is made to fail: the first, one in the middle
\* and the last
FailingSteps(doc) ==
    {1, (Len(TxSteps(doc)) + 1) \div 2, Len(TxSteps(doc))}

CreateGraph ==
    /\ \E doc \in GraphDocs :
          \E failAt \in {0} \cup FailingSteps(doc) :
              graph' = createRepositoryGraph(graph, doc, failAt)
    /\ UNCHANGED <<up, col, aggVars, storeVars, routeVars, runVars, appVars>>

DeleteGraph ==
    /\ \E ns \in Namespaces, fails \in BOOLEAN :
          graph' = deleteRepositoryGraph(graph, ns, fails)
    /\ UNCHANGED <<up, col, aggVars, storeVars, routeVars, runVars, appVars>>

GraphInit ==
    /\ up = Upstream(0, 0, 0, 0, 0, 0, 0)
    /\ IdleCollector
    /\ IdleAgg
    /\ IdleStore
    /\ IdleRoute
    /\ IdleGraph
    /\ IdleRun
    /\ IdleApp

GraphNext == CreateGraph \/ DeleteGraph

SpecGraph == GraphInit /\ [][GraphNext]_vars

-----------------------------------------------------------------------------
(* POST /api/repositories/select.  Every await of the handler is a point   *)
(* where another request may run; a storage method reads or writes the     *)
(* Maps when it is called, so each action below is the stretch of the      *)
(* handler from one awaited upstream or storage result to the next.        *)

Selects == 1..MaxSelects

\* names the upstream answers with that repository: repos.get matches owner
\* and repo without regard to letter case and returns the canonical full_name
UpstreamNames == {UpstreamFullName, "Owner/Repo"}

\* request bodies: no fullName, names of the upstream's repository, a name
\* the upstream answers 404 for, a name without a slash
FullNames == {"", "ghost/none", "noslash"} \cup UpstreamNames

SelectUpstreams ==
    { Upstream(150, 120, 250, 130, 3, 40, 10),
      Upstream(150, 120, 250, 130, 3, PerPage, ReleasesPerPage),
      Upstream(150, 120, 250, 130, 3, 250, 60) }

\* GitHubService.getRepositoryByFullName: repos.get rejects for a name the
\* upstream does not know and on a transient failure; the catch block
\* throws the same Error for both
getRepositoryByFullName(u, fullName, fails) ==
    IF fails \/ fullName \notin UpstreamNames
    THEN [threw |-> TRUE, message |-> "Failed to fetch repository from GitHub"]
    ELSE [threw |-> FALSE, id |-> 1, full_name |-> UpstreamFullName,
          stargazers_count |-> u.stargazers_count, forks_count |-> u.forks_count]

\* getRepositoryDetails awaited as a whole: the aggregate of a call none of
\* whose requests fails, or the Error its catch block throws when its own
\* repos.get rejects
getRepositoryDetails(u, fails) ==
    IF fails
    THEN [threw |-> TRUE, message |-> "Failed to fetch repository details from GitHub"]
    ELSE [threw |-> FALSE,
          commits |-> getCommits(u, 0).result,
          pullRequests |-> getPullRequests(u, FALSE).result,
          issues |-> getIssues(u, 0).result,
          releases |-> getReleases(u, FALSE).result,
          contributors |-> getContributors(u, 0).result,
          totals |-> getRepositoryTotals(u, FALSE,
                        getAccurateCommitCount(u, 0),
                        getAccurateContributorCount(u, 0),
                        getAccurateIssueCount(u, 0),
                        getAccurateOpenIssuesCount(u, 0)).totals]

\* storage.getRepositoryByFullName: the first record with that full name
StorageGetRepositoryByFullName(repos, fullName) ==
    LET hits == {k \in 1..Len(repos) : repos[k].fullName = fullName}
    IN IF hits = {} THEN Undefined
       ELSE repos[CHOOSE k \in hits : \A j \in hits : k <= j]

\* MemStorage.createRepository: a record under a fresh id
NewRepository(repos, githubRepo) ==
    [id |-> Len(repos) + 1, githubId |-> githubRepo.id,
     fullName |-> githubRepo.full_name,
     stars |-> githubRepo.stargazers_count, forks |-> githubRepo.forks_count]

\* codeMetrics of the select route: estimator totals, array lengths for the
\* pull requests and the releases
CodeMetrics(analysisData) ==
    [totalCommits |-> analysisData.totals.totalCommits,
     totalPRs |-> Length(analysisData.pullRequests),
     totalIssues |-> analysisData.totals.totalIssues,
     totalReleases |-> Length(analysisData.releases),
     totalContributors |-> analysisData.totals.totalContributors,
     openIssues |-> analysisData.totals.openIssues]

\* the object the route hands to createRepositoryAnalysis (less its
\* repositoryId) and to updateRepositoryAnalysis; every field is labelled
\* with the request that supplied it
AnalysisPayload(i, analysisData) ==
    [f \in Fields |->
        [by |-> i,
         value |-> IF f = "codeMetrics" THEN CodeMetrics(analysisData)
                   ELSE analysisData[f]]]

InFlight(r) == r.pc \notin {"idle", "done"}

Respond(r, response) == [r EXCEPT !.pc = "done", !.response = response]

SelectCatch(r) ==
    Respond(r, [status |-> 500, message |-> "Failed to select repository"])

\* a request on its way to the server, with the fullName of its body
NewRequest(fullName) ==
    [pc |-> "idle", fullName |-> fullName, repository |-> Undefined,
     analysisData |-> [threw |-> FALSE], analysis |-> Undefined,
     response |-> [status |-> 0], overlapped |-> FALSE, mirrorThrew |-> FALSE]

\* validation, then storage.getRepositoryByFullName is called
SelectStart ==
    \E i \in Selects :
        /\ reqs[i].pc = "idle"
        /\ LET fullName == reqs[i].fullName
               r == [reqs[i] EXCEPT
                        !.overlapped = \E j \in Selects : InFlight(reqs[j])]
           IN reqs' = [reqs EXCEPT ![i] =
                 IF fullName = ""
                 THEN Respond(r, [status |-> 400,
                                  message |-> "Repository full name is required"])
                 ELSE [r EXCEPT !.pc = "lookedUp",
                                !.repository =
                                    StorageGetRepositoryByFullName(repositories, fullName)]]
        /\ UNCHANGED <<up, col, aggVars, storeVars, repositories, graphVars, runVars, appVars>>

\* no stored repository: githubService.getRepositoryByFullName has answered
\* and storage.createRepository is called
SelectFetchRepository ==
    \E i \in Selects, fails \in BOOLEAN :
        /\ reqs[i].pc = "lookedUp"
        /\ reqs[i].repository = Undefined
        /\ \E githubRepo \in {getRepositoryByFullName(up, reqs[i].fullName, fails)} :
              IF githubRepo.threw
              THEN /\ reqs' = [reqs EXCEPT ![i] = SelectCatch(@)]
                   /\ UNCHANGED repositories
              ELSE /\ repositories' =
                         Append(repositories, NewRepository(repositories, githubRepo))
                   /\ reqs' = [reqs EXCEPT ![i] =
                         [@ EXCEPT !.pc = "haveRepository",
                                   !.repository = NewRepository(repositories, githubRepo)]]
        /\ UNCHANGED <<up, col, aggVars, storeVars, graphVars, runVars, appVars>>

\* getRepositoryDetails has answered and storage.getRepositoryAnalysis is
\* called
SelectFetchDetails ==
    \E i \in Selects, fails \in BOOLEAN :
        /\ \/ reqs[i].pc = "haveRepository"
           \/ reqs[i].pc = "lookedUp" /\ reqs[i].repository # Undefined
        /\ \E analysisData \in {getRepositoryDetails(up, fails)} :
              reqs' = [reqs EXCEPT ![i] =
                 IF analysisData.threw THEN SelectCatch(@)
                 ELSE [@ EXCEPT !.pc = "haveAnalysis",
                                !.analysisData = analysisData,
                                !.analysis =
                                    getRepositoryAnalysis(repositoryAnalyses,
                                                          reqs[i].repository.id)]]
        /\ UNCHANGED <<up, col, aggVars, storeVars, repositories, graphVars, runVars, appVars>>

\* if (analysis) updateRepositoryAnalysis(...) else createRepositoryAnalysis(...);
\* analysis becomes the record the storage method returns
SelectStore ==
    \E i \in Selects :
        /\ reqs[i].pc = "haveAnalysis"
        /\ LET r == reqs[i]
               payload == AnalysisPayload(i, r.analysisData)
               existing == getRepositoryAnalysis(repositoryAnalyses, r.repository.id)
           IN IF r.analysis # Undefined
              THEN /\ updateRepositoryAnalysis(r.repository.id, payload)
                   /\ reqs' = [reqs EXCEPT ![i] =
                         [@ EXCEPT !.pc = "stored",
                                   !.analysis =
                                      IF existing = Undefined THEN Undefined
                                      ELSE MergedAnalysis(existing, payload, clock')]]
              ELSE /\ createRepositoryAnalysis(r.repository.id, payload)
                   /\ reqs' = [reqs EXCEPT ![i] =
                         [@ EXCEPT !.pc = "stored",
                                   !.analysis =
                                      NewAnalysis(clock', r.repository.id, payload, clock')]]
        /\ UNCHANGED repositories

\* res.json({ repository, analysis })
SelectRespond(r) ==
    Respond(r, [status |-> 200, repository |-> r.repository, analysis |-> r.analysis])

\* the awaited storage write has returned
SelectAnswer ==
    \E i \in Selects :
        /\ reqs[i].pc = "stored"
        /\ reqs' = [reqs EXCEPT ![i] = SelectRespond(@)]
        /\ UNCHANGED <<up, col, aggVars, storeVars, repositories, graphVars, runVars, appVars>>

(* The select handler with the graph mirror: "graph creation is triggered  *)
(* automatically when a repository is selected", "each repository refresh  *)
(* creates a new graph (old one is deleted first)", and a failure of the    *)
(* mirror is caught, logged and swallowed.                                  *)

\* the graph mirror fails inside the handler's try block: the handler's
\* catch answers 500
MirrorRethrow(r) == SelectCatch([r EXCEPT !.mirrorThrew = TRUE])

\* an exception of the graph mirror is caught, logged and swallowed
MirrorCatch(r) == SelectRespond([r EXCEPT !.mirrorThrew = TRUE])

\* the graph document of the repository as this request fetched it: the
\* first document when it found no analysis, the changed one on a refresh
MirrorDoc(r) ==
    GraphDoc(r.repository.fullName,
             IF r.analysis.lastUpdated = r.analysis.id THEN "first" ELSE "changed")

\* the prior graph of the namespace is deleted
SelectMirrorDelete ==
    \E i \in Selects, fails \in BOOLEAN :
        /\ reqs[i].pc = "stored"
        /\ graph' = deleteRepositoryGraph(graph, reqs[i].repository.fullName, fails)
        /\ reqs' = [reqs EXCEPT ![i] =
              IF fails THEN MirrorCatch(@) ELSE [@ EXCEPT !.pc = "graphDeleted"]]
        /\ UNCHANGED <<up, col, aggVars, storeVars, repositories, runVars, appVars>>

\* the new graph is written, then the handler answers
SelectMirrorCreate ==
    \E i \in Selects, fails \in BOOLEAN :
        /\ reqs[i].pc = "graphDeleted"
        /\ graph' = createRepositoryGraph(graph, MirrorDoc(reqs[i]),
                                          IF fails THEN 1 ELSE 0)
        /\ reqs' = [reqs EXCEPT ![i] =
              IF fails THEN MirrorCatch(@) ELSE SelectRespond(@)]
        /\ UNCHANGED <<up, col, aggVars, storeVars, repositories, runVars, appVars>>

StoredRepository(u) ==
    NewRepository(<< >>, getRepositoryByFullName(u, UpstreamFullName, FALSE))

\* the requests to come, each with its body; the store holds no repository
\* yet, or the upstream's repository without an analysis (as after a select
\* whose getRepositoryDetails threw)
SelectInit ==
    /\ up \in SelectUpstreams
    /\ reqs \in [Selects -> {NewRequest(fullName) : fullName \in FullNames}]
    /\ repositories \in {<< >>, <<StoredRepository(up)>>}
    /\ IdleCollector
    /\ IdleAgg
    /\ IdleStore
    /\ IdleGraph
    /\ IdleRun
    /\ IdleApp

\* requests for the upstream's repository under its canonical name
SelectMirrorInit ==
    /\ up = Upstream(150, 120, 250, 130, 3, 40, 10)
    /\ reqs = [i \in Selects |-> NewRequest(UpstreamFullName)]
    /\ repositories \in {<< >>, <<StoredRepository(up)>>}
    /\ IdleCollector
    /\ IdleAgg
    /\ IdleStore
    /\ IdleGraph
    /\ IdleRun
    /\ IdleApp

SelectNext ==
    \/ SelectStart
    \/ SelectFetchRepository
    \/ SelectFetchDetails
    \/ SelectStore
    \/ SelectAnswer

SpecSelect == SelectInit /\ [][SelectNext]_vars

SelectMirrorNext ==
    \/ SelectStart
    \/ SelectFetchRepository
    \/ SelectFetchDetails
    \/ SelectStore
    \/ SelectMirrorDelete
    \/ SelectMirrorCreate

SpecSelectMirror == SelectMirrorInit /\ [][SelectMirrorNext]_vars

(* GET /api/repositories/:id/analysis, while select requests come and go *)

\* this.repositories.get(id)
getRepository(repos, id) ==
    LET hits == {k \in 1..Len(repos) : repos[k].id = id}
    IN IF hits = {} THEN Undefined
       ELSE repos[CHOOSE k \in hits : \A j \in hits : k <= j]

\* the :id of the request: ids of stored repositories and an unknown one
RepositoryParams == 1..(MaxSelects + 1)

\* the handler; res.json(analysis) of an undefined analysis sends 200 with
\* an empty body.  sought records what the store held for the id.
GetAnalysis ==
    /\ answer.status = 0
    /\ \E id \in RepositoryParams :
          LET repository == getRepository(repositories, id)
              analysis == getRepositoryAnalysis(repositoryAnalyses, repository.id)
          IN answer' =
                IF repository = Undefined
                THEN [status |-> 404, message |-> "Repository not found",
                      id |-> id, known |-> FALSE,
                      sought |-> getRepositoryAnalysis(repositoryAnalyses, id)]
                ELSE [status |-> 200, body |-> analysis,
                      id |-> id, known |-> TRUE,
                      sought |-> getRepositoryAnalysis(repositoryAnalyses, id)]
    /\ UNCHANGED <<up, col, aggVars, storeVars, routeVars, graphVars, runVars, auth, chat>>

\* select requests for the upstream's repository, none stored yet
AnalysisInit ==
    /\ up = Upstream(150, 120, 250, 130, 3, 40, 10)
    /\ reqs = [i \in Selects |-> NewRequest(UpstreamFullName)]
    /\ repositories = << >>
    /\ IdleCollector
    /\ IdleAgg
    /\ IdleStore
    /\ IdleGraph
    /\ IdleRun
    /\ IdleApp

AnalysisNext == SelectNext \/ GetAnalysis

SpecAnalysis == AnalysisInit /\ [][AnalysisNext]_vars

-----------------------------------------------------------------------------
(* GitHub OAuth routes.  A session is the server-side object express-session *)
(* keeps per browser; a field never assigned reads as undefined.             *)

\* undefined: a query parameter not sent, a session field never assigned
Absent == "undefined"

Sessions == {"browserA", "browserB"}

\* req.query.code / req.query.state of a callback request
Codes == {Absent, "code"}
States == {Absent, "s1", "s2"}

NewSession == [oauthState |-> Absent, userId |-> Absent]

\* randomUUID() of createUser
NewUserId(users) == IF users = << >> THEN "u1" ELSE "u2"

\* storage.getUserByGithubId
getUserByGithubId(users, githubId) ==
    {k \in 1..Len(users) : users[k].githubId = githubId}

\* one handled request as the server saw it, with the sessions and the
\* users it found
Handled(a, route, session, code, state, statusCode, exchanged) ==
    [route |-> route, session |-> session, code |-> code, state |-> state,
     status |-> statusCode, exchanged |-> exchanged,
     before |-> [sessions |-> a.sessions, users |-> a.users]]

\* GET /api/auth/github: state = Math.random().toString(36).substring(7)
AuthGithub(a, session, state) ==
    IF a.clientId = Absent
    THEN [a EXCEPT !.n = @ + 1,
                   !.last = Handled(a, "github", session, Absent, state, 500, FALSE)]
    ELSE [a EXCEPT !.n = @ + 1,
                   !.sessions[session].oauthState = state,
                   !.last = Handled(a, "github", session, Absent, state, 302, FALSE)]

\* the check of the callback: !code || state !== req.session.oauthState
InvalidCallback(a, session, code, state) ==
    code = Absent \/ state # a.sessions[session].oauthState

\* GET /api/auth/github/callback; outcome is what exchangeCodeForToken and
\* getUserProfile do: both answer ("profile"), or one of them throws
AuthCallback(a, session, code, state, outcome) ==
    IF InvalidCallback(a, session, code, state)
    THEN [a EXCEPT !.n = @ + 1,
                   !.last = Handled(a, "callback", session, code, state, 400, FALSE)]
    ELSE IF outcome = "throws"
    THEN [a EXCEPT !.n = @ + 1,
                   !.last = Handled(a, "callback", session, code, state, 500, TRUE)]
    ELSE
      LET hits == getUserByGithubId(a.users, "7")
          users == IF hits = {}
                   THEN Append(a.users, [id |-> NewUserId(a.users), githubId |-> "7",
                                         username |-> "octocat",
                                         accessToken |-> a.n + 1])
                   ELSE [k \in 1..Len(a.users) |->
                            IF k \in hits
                            THEN [a.users[k] EXCEPT !.accessToken = a.n + 1,
                                                    !.username = "octocat"]
                            ELSE a.users[k]]
          user == IF hits = {} THEN users[Len(users)]
                  ELSE users[CHOOSE k \in hits : \A j \in hits : k <= j]
      IN [a EXCEPT !.n = @ + 1,
                   !.users = users,
                   !.sessions[session].userId = user.id,
                   !.last = Handled(a, "callback", session, code, state, 302, TRUE)]

\* POST /api/auth/logout: req.session.destroy
AuthLogout(a, session) ==
    [a EXCEPT !.n = @ + 1,
              !.sessions[session] = NewSession,
              !.last = Handled(a, "logout", session, Absent, Absent, 200, FALSE)]

AuthStart ==
    /\ auth.n < MaxAuthRequests
    /\ \E session \in Sessions, state \in States \ {Absent} :
          auth' = AuthGithub(auth, session, state)
    /\ UNCHANGED <<up, col, aggVars, storeVars, routeVars, graphVars, runVars, answer, chat>>

AuthReturn ==
    /\ auth.n < MaxAuthRequests
    /\ \E session \in Sessions, code \in Codes, state \in States,
          outcome \in {"profile", "throws"} :
          auth' = AuthCallback(auth, session, code, state, outcome)
    /\ UNCHANGED <<up, col, aggVars, storeVars, routeVars, graphVars, runVars, answer, chat>>

AuthEnd ==
    /\ auth.n < MaxAuthRequests
    /\ \E session \in Sessions : auth' = AuthLogout(auth, session)
    /\ UNCHANGED <<up, col, aggVars, storeVars, routeVars, graphVars, runVars, answer, chat>>

AuthInit ==
    /\ up = Upstream(0, 0, 0, 0, 0, 0, 0)
    /\ \E clientId \in {Absent, "client"} :
          auth = [clientId |-> clientId, n |-> 0, users |-> << >>,
                  sessions |-> [s \in Sessions |-> NewSession],
                  last |-> [route |-> "none"]]
    /\ IdleCollector
    /\ IdleAgg
    /\ IdleStore
    /\ IdleRoute
    /\ IdleGraph
    /\ IdleRun
    /\ IdleAnswer
    /\ IdleChat

AuthNext == AuthStart \/ AuthReturn \/ AuthEnd

SpecAuth == AuthInit /\ [][AuthNext]_vars

-----------------------------------------------------------------------------
(* Conversation routes: POST /api/conversations and                         *)
(* POST /api/conversations/:id/messages.  MemStorage keeps conversations    *)
(* and messages in insertion order, which is the order of createdAt.        *)

ConversationIds == {"c1", "c2"}

\* randomUUID() of createConversation
NewConversationId(conversations) == IF conversations = << >> THEN "c1" ELSE "c2"

\* title: insertConversation.title || null of a request without title
NoTitle == << >>

\* storage.getConversation: the positions holding that id
getConversation(conversations, id) ==
    {k \in 1..Len(conversations) : conversations[k].id = id}

\* storage.getMessagesByConversation: filter, sorted by createdAt
getMessagesByConversation(messages, conversationId) ==
    SelectSeq(messages, LAMBDA message : message.conversationId = conversationId)

\* storage.createMessage
createMessage(messages, conversationId, role, content) ==
    Append(messages, [conversationId |-> conversationId, role |-> role,
                      content |-> content])

\* storage.updateConversation(id, { title })
updateConversation(conversations, id, title) ==
    [k \in 1..Len(conversations) |->
        IF conversations[k].id = id
        THEN [conversations[k] EXCEPT !.title = title] ELSE conversations[k]]

\* codeAnalysisService.generateTitle(content)
generateTitle(content) == <<"title of", content>>

\* one handled request of the message route: the response, what the
\* conversation held when the request arrived, the calls the handler made
Posted(c, conversationId, content, statusCode, held, calls) ==
    [conversationId |-> conversationId, content |-> content,
     status |-> statusCode, held |-> held, calls |-> calls]

\* POST /api/conversations with a repository the store holds
PostConversation(c, title) ==
    [c EXCEPT !.n = @ + 1,
              !.conversations =
                  Append(@, [id |-> NewConversationId(@), title |-> title])]

\* POST /api/conversations/:id/messages; analysis is what
\* codeAnalysisService.analyzeQuestion does: it answers or throws
PostMessage(c, conversationId, content, analysis) ==
    IF getConversation(c.conversations, conversationId) = {}
    THEN [c EXCEPT !.n = @ + 1,
                   !.last = Posted(c, conversationId, content, 404, 0, {})]
    ELSE
      LET held == Len(getMessagesByConversation(c.messages, conversationId))
          withUser == createMessage(c.messages, conversationId, "user", content)
          messages == getMessagesByConversation(withUser, conversationId)
          withAi == createMessage(withUser, conversationId, "assistant",
                                  <<"answer to", content>>)
      IN IF analysis = "throws"
         THEN [c EXCEPT !.n = @ + 1,
                        !.messages = withUser,
                        !.last = Posted(c, conversationId, content, 500, held,
                                        {"analyzeQuestion"})]
         ELSE IF Len(messages) = 0
         THEN [c EXCEPT !.n = @ + 1,
                        !.messages = withAi,
                        !.conversations =
                            updateConversation(@, conversationId,
                                               generateTitle(content)),
                        !.last = Posted(c, conversationId, content, 200, held,
                                        {"analyzeQuestion", "generateTitle",
                                         "updateConversation"})]
         ELSE [c EXCEPT !.n = @ + 1,
                        !.messages = withAi,
                        !.last = Posted(c, conversationId, content, 200, held,
                                        {"analyzeQuestion"})]

CreateConversation ==
    /\ chat.n < MaxChatRequests
    /\ Len(chat.conversations) < Cardinality(ConversationIds)
    /\ chat' = PostConversation(chat, NoTitle)
    /\ UNCHANGED <<up, col, aggVars, storeVars, routeVars, graphVars, runVars, answer, auth>>

SendMessage ==
    /\ chat.n < MaxChatRequests
    /\ \E conversationId \in ConversationIds, content \in {"q1", "q2"},
          analysis \in {"answers", "throws"} :
          chat' = PostMessage(chat, conversationId, content, analysis)
    /\ UNCHANGED <<up, col, aggVars, storeVars, routeVars, graphVars, runVars, answer, auth>>

ChatInit ==
    /\ up = Upstream(0, 0, 0, 0, 0, 0, 0)
    /\ chat = [n |-> 0, conversations |-> << >>, messages |-> << >>,
               last |-> [status |-> 0]]
    /\ IdleCollector
    /\ IdleAgg
    /\ IdleStore
    /\ IdleRoute
    /\ IdleGraph
    /\ IdleRun
    /\ IdleAnswer
    /\ IdleAuth

ChatNext == CreateConversation \/ SendMessage

SpecChat == ChatInit /\ [][ChatNext]_vars

-----------------------------------------------------------------------------
(* Claims on the collectors *)

CapOf(kind) ==
    CASE kind = "commits" -> 300
      [] kind = "issues" -> 500
      [] kind = "contributors" -> 500
      [] kind = "releases" -> 50
      [] OTHER -> 100

\* C1: whatever the size of the upstream listing and whichever page fetch
\* fails, the sequence returned by getCommits, getIssues, getContributors and
\* getReleases has at most 300, 500, 500 and 50 items respectively.
C1_CapsRespected ==
    col.status = "returned" => Length(col.result) <= CapOf(col.kind)

\* C1 witness: a collector returned a full cap of items from a larger listing
C1_Witness ==
    /\ col.status = "returned"
    /\ col.kind \in {"commits", "releases"}
    /\ Length(col.result) = CapOf(col.kind)
    /\ ListingSize(up, col.kind) > CapOf(col.kind)

\* the items of pages 1..k-1 of the listing a collector reads
PagesBefore(u, kind, k) ==
    [p \in 1..(k - 1) |-> ListPage(ListingSize(u, kind), PerPage, p).data]

\* C4: when the fetch of page k >= 2 fails, the collector returns the items of
\* pages 1..k-1 already accumulated, does not retry and does not throw.
C4_PartialPagesKept ==
    (col.status = "returned" /\ col.failedAt >= 2)
        => /\ col.result = PagesBefore(up, col.kind, col.failedAt)
           /\ ~col.threw
           /\ col.requests = [p \in 1..col.failedAt |-> p]

-----------------------------------------------------------------------------
(* Claims on getRepositoryDetails *)

\* C2: getRepositoryDetails never fails because of a transient upstream
\* failure: whatever upstream calls fail, the repository-metadata request
\* included, it returns an aggregate document and does not throw.
C2_DetailsNeverThrows ==
    call.entry = "details" => call.state # "threw"

\* what a collection returns when none of its requests fails: the first
\* min(n, cap) items of its listing, page by page
Unfailing(u, t) ==
    LET perPage == IF t = "releases" THEN ReleasesPerPage ELSE PerPage
        cap == CASE t = "commits" -> CommitsMaxPages * PerPage
                 [] t = "issues" -> IssuesMaxPages * PerPage
                 [] t = "contributors" -> ContributorsMaxPages * PerPage
                 [] t = "pullRequests" -> PerPage
                 [] t = "releases" -> ReleasesPerPage
        m == Min(ListingSize(u, t), cap)
    IN [p \in 1..CeilDiv(m, perPage) |->
          Run((p - 1) * perPage, Min(perPage, m - (p - 1) * perPage))]

\* what an estimator returns when none of its requests fails
UnfailingCount(u, e) ==
    CASE e = "totalCommits" -> getAccurateCommitCount(u, 0).value
      [] e = "totalContributors" -> getAccurateContributorCount(u, 0).value
      [] e = "totalIssues" -> getAccurateIssueCount(u, 0).value
      [] e = "openIssues" -> getAccurateOpenIssuesCount(u, 0).value

\* C3: in getRepositoryDetails the failure of one of the five collections, of
\* the totals estimation or of one count inside it does not alter the result
\* of any other sub-task (each sequence and count whose own requests did not
\* fail has the value of the run without failure), and the call completes
\* only after all sub-tasks have completed.
C3_SubtasksIsolated ==
    (call.entry = "details" /\ call.state # "pending"
       /\ failedAt["repoDetails"] = 0)
    => /\ call.state = "returned"
       /\ AllSettled(DetailTasks)
       /\ \A t \in Collections :
             failedAt[t] = 0 => Aggregate[t] = Unfailing(up, t)
       /\ \A e \in Estimators :
             failedAt[e] = 0 => Aggregate.totals[e] = UnfailingCount(up, e)

\* C3 witness: the call returned although a sub-task (a collection or a
\* count) failed, and the siblings delivered their items
C3_Witness ==
    /\ call.entry = "details"
    /\ call.state = "returned"
    /\ \E t \in Collections \cup Estimators : failedAt[t] # 0
    /\ \E t \in Collections : failedAt[t] = 0 /\ Aggregate[t] # << >>
    /\ totals.totalContributors > 0

\* C7: no item of the issues sequence of a returned aggregate carries the
\* pull-request marker.
C7_NoPullRequestInIssues ==
    (call.entry = "details" /\ call.state = "returned")
        => \A i \in ItemIds(Aggregate.issues) : ~IsPR(up, i)

-----------------------------------------------------------------------------
(* Claims on getRepositoryTotals and the count estimators *)

\* the last page of a listing of n items, as disclosed by page 1
LastPage(n) == CeilDiv(n, PerPage)

\* the items of a listing of n issues that are not pull requests
ActualIssueIds(u, n) == {i \in 1..n : ~IsPR(u, i)}

\* C5: in every totals object returned by getRepositoryTotals, whatever the
\* upstream state and whichever sub-requests fail, openIssues <= totalIssues.
C5_OpenIssuesAtMostTotal ==
    totals.state = "returned" => totals.openIssues <= totals.totalIssues

\* C6: totalIssues counts no item that carries the pull-request marker: on
\* the exact path (no failure, at most 20 pages) it is the number of
\* unmarked items of the listing, each page contributing only those.
C6_IssueCountExcludesPullRequests ==
    (totals.state = "returned" /\ failedAt["totalIssues"] = 0
       /\ LastPage(up.issues) <= IssueLargeRepoPages)
    => totals.totalIssues = Cardinality(ActualIssueIds(up, up.issues))

\* C8: for a repository with N commits and no fetch failure,
\* getAccurateCommitCount returns exactly N whenever the last page is at
\* most 50, and when no last page is disclosed (N <= 100).
C8_CommitCountExact ==
    (totals.state = "returned" /\ failedAt["totalCommits"] = 0
       /\ LastPage(up.commits) <= 50)
    => totals.totalCommits = up.commits

\* C8 witness: the count of a repository whose last page is page 50, partial
C8_Witness ==
    /\ totals.state = "returned"
    /\ failedAt["totalCommits"] = 0
    /\ LastPage(up.commits) = 50
    /\ up.commits % PerPage # 0
    /\ totals.totalCommits = up.commits

OpenIssuesUpToPage(u, p) ==
    Cardinality(ActualIssueIds(u, Min(u.open, p * PerPage)))

-----------------------------------------------------------------------------
(* Claims on the analysis record store *)

\* the record getRepositoryAnalysis returns for the repository last written
Stored == getRepositoryAnalysis(repositoryAnalyses, lastWrite.repositoryId)

\* the analysis of a repository that had one has just been written again
Refreshed ==
    /\ lastWrite.op = "update"
    /\ lastWrite.before # Undefined

C16_PagesInOrder ==
    [][col.kind \in {"commits", "issues", "contributors"} =>
         \/ col'.requests = col.requests
         \/ /\ col'.requests = Append(col.requests, Len(col.requests) + 1)
            /\ col.status = "running"
            /\ col.failedAt = 0
            /\ Len(col.requests) < MaxPagesOf(col.kind)
            /\ Length(col.items) = PerPage * Len(col.requests)]_vars

\* a collector that requested pages 1, 2, 3 and stopped on the short third
\* page, below its maxPages
C16_Witness ==
    /\ col.kind = "contributors"
    /\ col.status = "returned"
    /\ col.requests = <<1, 2, 3>>
    /\ col.failedAt = 0
    /\ Length(col.items) \in (2 * PerPage + 1)..(3 * PerPage - 1)

\* the run of an estimator whose failAt-th request fails
EstimatorRun(u, e, failAt) ==
    CASE e = "totalCommits" -> getAccurateCommitCount(u, failAt)
      [] e = "totalContributors" -> getAccurateContributorCount(u, failAt)
      [] e = "totalIssues" -> getAccurateIssueCount(u, failAt)
      [] e = "openIssues" -> getAccurateOpenIssuesCount(u, failAt)

\* return statements that count the items, and those that extrapolate (from
\* the page count, or from the pages read before a failed request)
ExactPaths == {"firstPage", "lastPage", "allPages"}
EstimationPaths == {"estimate", "innerCatch"}

BothRunsReturned ==
    /\ call.entry = "twice"
    /\ firstRun.state = "returned"
    /\ status["totals"] = "settled"

FirstPath(e) == EstimatorRun(up, e, firstRun.failedAt[e]).path
SecondPath(e) == EstimatorRun(up, e, failedAt[e]).path

\* C17: of two getRepositoryTotals calls in immediate succession against the
\* unchanged upstream, a count computed on an exact path in both has the same
\* value in both, and a count for which a call took an estimation path
\* (the fallback after a failed last-page request included) differs by at
\* most 20% between the two
C17_RepeatedTotalsAgree ==
    BothRunsReturned =>
        \A e \in Estimators :
            LET first == firstRun.totals[e]
                second == totals[e]
            IN /\ (FirstPath(e) \in ExactPaths /\ SecondPath(e) \in ExactPaths)
                    => first = second
               /\ ( /\ {FirstPath(e), SecondPath(e)} \subseteq ExactPaths \cup EstimationPaths
                    /\ {FirstPath(e), SecondPath(e)} \cap EstimationPaths # {} )
                    => 5 * (Max(first, second) - Min(first, second))
                          <= Max(first, second)

\* C18: what an estimator returns tells an exact count from an estimated or
\* degraded one: a call that counted exactly and a call that extrapolated or
\* caught a failure do not return the same result
C18_ExactDistinguishable ==
    BothRunsReturned =>
        \A e \in Estimators :
            (FirstPath(e) \in ExactPaths) # (SecondPath(e) \in ExactPaths)
                => firstRun.totals[e] # totals[e]

-----------------------------------------------------------------------------
(* Claims on the select route *)

Succeeded(r) == r.pc = "done" /\ r.response.status = 200

Quiescent == \A i \in Selects : ~InFlight(reqs[i])

AnalysesOf(repositoryId) ==
    {k \in 1..Len(repositoryAnalyses) :
        repositoryAnalyses[k].repositoryId = repositoryId}

\* every data field of the record is the one the payload supplied
HoldsPayload(analysis, payload) ==
    \A f \in Fields : analysis[f] = payload[f]

\* C11: once two select requests for the same repository that were in
\* flight together have both completed, the store holds exactly one analysis
\* record of that repository and getRepositoryAnalysis returns the whole
\* payload of the store write that happened last
C11_ConcurrentRefreshSafe ==
    \A i, j \in Selects :
        ( /\ i # j
          /\ Quiescent
          /\ Succeeded(reqs[i]) /\ Succeeded(reqs[j])
          /\ reqs[i].overlapped \/ reqs[j].overlapped
          /\ reqs[i].repository.id = reqs[j].repository.id )
        => /\ Cardinality(AnalysesOf(reqs[i].repository.id)) = 1
           /\ lastWrite.repositoryId = reqs[i].repository.id
                 => HoldsPayload(getRepositoryAnalysis(repositoryAnalyses,
                                                       reqs[i].repository.id),
                                 lastWrite.payload)

Started == {i \in Selects : reqs[i].pc # "idle"}

RepositoriesNamed(fullName) ==
    {k \in 1..Len(repositories) : repositories[k].fullName = fullName}

C15_NotFoundDistinct ==
    \A i, j \in Selects :
        ( /\ reqs[i].pc = "done" /\ reqs[j].pc = "done"
          /\ reqs[i].fullName \notin UpstreamNames
          /\ reqs[j].fullName \in UpstreamNames
          /\ reqs[j].response.status # 200 )
        => reqs[i].response # reqs[j].response

CodeMetricFields ==
    {"totalCommits", "totalPRs", "totalIssues", "totalReleases",
     "totalContributors", "openIssues"}

\* the stored metrics say of total f that it is a lower bound: they carry
\* something about f besides the numbers themselves
MarkedCapped(codeMetrics, f) ==
    \E g \in DOMAIN codeMetrics \ CodeMetricFields : f \in codeMetrics[g]

\* C19: when the pull-request listing returned 100 items, or the release
\* listing 50, the stored totalPRs / totalReleases is marked as capped
C19_CappedTotalsMarked ==
    \A k \in 1..Len(repositoryAnalyses) :
        LET analysis == repositoryAnalyses[k]
            codeMetrics == analysis.codeMetrics.value
        IN /\ Length(analysis.pullRequests.value) = PerPage
                => MarkedCapped(codeMetrics, "totalPRs")
           /\ Length(analysis.releases.value) = ReleasesPerPage
                => MarkedCapped(codeMetrics, "totalReleases")

-----------------------------------------------------------------------------
(* Claims on the graph mirror *)

Items(seq) == {seq[k] : k \in 1..Len(seq)}

Rel(type, from, to, props) ==
    [type |-> type, from |-> from, to |-> to, props |-> props]

\* the nodes a document stands for
ProjectedNodes(doc) ==
    LET ns == doc.repository.full_name
        issues == {i \in Items(doc.issues) : ~i.pull_request}
    IN {Node("Repository", ns, doc.repository.id,
             [stars |-> doc.repository.stargazers_count])}
       \cup {Node("Contributor", ns, c.id,
                  [login |-> c.login, contributions |-> c.contributions]) :
                c \in Items(doc.contributors)}
       \cup {Node("Commit", ns, c.sha, [message |-> c.message]) :
                c \in Items(doc.commits)}
       \cup {Node("PullRequest", ns, pr.id, [number |-> pr.number]) :
                pr \in Items(doc.pullRequests)}
       \cup {Node("Issue", ns, i.id, [number |-> i.number, state |-> i.state]) :
                i \in issues}
       \cup {Node("Release", ns, r.id, [tag_name |-> r.tag_name]) :
                r \in Items(doc.releases)}
       \cup UNION {{Node("File", ns, path, [filename |-> path]) :
                       path \in Items(c.files)} : c \in Items(doc.commits)}
       \cup UNION {{Node("Milestone", ns, m.title, [state |-> m.state]) :
                       m \in Items(i.milestone)} : i \in Items(doc.issues)}

\* the relationships a document stands for
ProjectedRels(doc) ==
    LET ns == doc.repository.full_name
        repo == <<"Repository", ns, doc.repository.id>>
        Contributors(login) ==
            {<<"Contributor", ns, c.id>> :
                c \in {d \in Items(doc.contributors) : d.login = login /\ login # ""}}
        Commits(sha) ==
            {<<"Commit", ns, c.sha>> : c \in {d \in Items(doc.commits) : d.sha = sha}}
        issues == {i \in Items(doc.issues) : ~i.pull_request}
        Links(type, froms, tos) ==
            {Rel(type, a, b, NoProps) : a \in froms, b \in tos}
    IN {Rel("CONTRIBUTES_TO", <<"Contributor", ns, c.id>>, repo,
            [contributions |-> c.contributions]) : c \in Items(doc.contributors)}
       \cup UNION {
            Links("BELONGS_TO", {<<"Commit", ns, c.sha>>}, {repo})
            \cup Links("AUTHORED", Contributors(c.author), {<<"Commit", ns, c.sha>>})
            \cup Links("COMMITTED",
                       IF c.committer # c.author THEN Contributors(c.committer) ELSE {},
                       {<<"Commit", ns, c.sha>>})
            \cup Links("MODIFIES", {<<"Commit", ns, c.sha>>},
                       {<<"File", ns, path>> : path \in Items(c.files)})
            : c \in Items(doc.commits)}
       \cup UNION {
            Links("TARGETS", {<<"PullRequest", ns, pr.id>>}, {repo})
            \cup Links("OPENED", Contributors(pr.user), {<<"PullRequest", ns, pr.id>>})
            \cup Links("MERGED_AS", {<<"PullRequest", ns, pr.id>>},
                       Commits(pr.merge_commit_sha))
            \cup Links("PART_OF", Commits(pr.head), {<<"PullRequest", ns, pr.id>>})
            \cup Links("SOLVES", {<<"PullRequest", ns, pr.id>>},
                       {<<"Issue", ns, i.id>> : i \in {j \in issues : j.number \in pr.closes}})
            : pr \in Items(doc.pullRequests)}
       \cup UNION {
            Links("REPORTED_IN", {<<"Issue", ns, i.id>>}, {repo})
            \cup Links("REPORTED", Contributors(i.user), {<<"Issue", ns, i.id>>})
            \cup Links("ASSIGNED_TO", UNION {Contributors(a) : a \in i.assignees},
                       {<<"Issue", ns, i.id>>})
            \cup Links("TRACKED_IN", {<<"Issue", ns, i.id>>},
                       {<<"Milestone", ns, m.title>> : m \in Items(i.milestone)})
            : i \in issues}
       \cup UNION {
            Links("RELEASED_FOR", {<<"Release", ns, r.id>>}, {repo})
            \cup Links("PUBLISHED", Contributors(r.author), {<<"Release", ns, r.id>>})
            \cup Links("TAGGED_AT", {<<"Release", ns, r.id>>}, Commits(r.target_commitish))
            : r \in Items(doc.releases)}

DeletedThenCreated ==
    /\ graph.last.op = "create" /\ ~graph.last.threw
    /\ graph.last.after.op = "delete" /\ ~graph.last.after.threw
    /\ graph.last.after.namespace = graph.last.namespace

\* C14: whatever the database held, after deleteRepositoryGraph(ns) followed
\* by createRepositoryGraph(doc) of the repository named ns, the database holds
\* under ns exactly the nodes and relationships doc stands for: nothing of an
\* earlier document is left and nothing is there twice
C14_DeleteThenCreateIsProjection ==
    DeletedThenCreated =>
        Under(graph, graph.last.namespace) =
            [nodes |-> ProjectedNodes(graph.last.doc),
             rels |-> ProjectedRels(graph.last.doc)]

\* the pair was run on a namespace that held the graph of another document
C14_Witness ==
    /\ DeletedThenCreated
    /\ graph.last.after.found.nodes # {}
    /\ graph.last.after.found.nodes # ProjectedNodes(graph.last.doc)
    /\ graph.last.after.found.rels \ ProjectedRels(graph.last.doc) # {}

\* C20: a deleteRepositoryGraph or createRepositoryGraph call for the
\* repository named ns creates, changes and deletes no node and no
\* relationship of another namespace
C20_NamespaceIsolation ==
    [][\A ns \in Namespaces :
          ns # graph'.last.namespace => Under(graph', ns) = Under(graph, ns)]_vars

\* a call changed the graph of its namespace while a fork with the same
\* commits and contributors had its graph in the database
C20_Witness ==
    /\ graph.last.op \in {"create", "delete"}
    /\ ~graph.last.threw
    /\ Under(graph, graph.last.namespace) # graph.last.found
    /\ \E ns \in Namespaces \ {graph.last.namespace} :
          /\ Under(graph, ns).rels # {}
          /\ \E n \in Under(graph, ns).nodes, m \in graph.last.found.nodes :
                n.label = m.label /\ n.key = m.key

-----------------------------------------------------------------------------
(* Claims on the analysis route *)

\* C21: GET /api/repositories/:id/analysis answers with a stored analysis or
\* with not-found: whenever the store holds no analysis record for the id
\* (unknown repository, or a repository without analysis) the response is
\* 404, never a success response without an analysis
C21_AnalysisOrNotFound ==
    (answer.status # 0 /\ answer.sought = Undefined) => answer.status = 404

-----------------------------------------------------------------------------
(* Claims on the OAuth routes *)

\* C22: the callback exchanges the code, writes a user and sets
\* session.userId only if the request carries a code and a state equal to an
\* oauthState that /api/auth/github stored in the same session before; a
\* callback in a session without stored oauthState, or with a missing or
\* different state, gets 400 and changes neither the users nor the session
C22_OAuthStateValidated ==
    auth.last.route = "callback" =>
        LET request == auth.last
            stored == request.before.sessions[request.session].oauthState
            valid == /\ request.code # Absent
                     /\ stored # Absent
                     /\ request.state = stored
        IN /\ request.exchanged => valid
           /\ ~valid => /\ request.status = 400
                        /\ auth.users = request.before.users
                        /\ auth.sessions = request.before.sessions

-----------------------------------------------------------------------------
(* Further claims on the collectors *)

Paginated == {"commits", "issues", "contributors"}

\* the runs of an array follow one another from item 1 on: upstream order,
\* no gap, no duplicate
Consecutive(array) ==
    \A k \in 1..Len(array) :
        array[k].first = IF k = 1 THEN 0
                         ELSE array[k - 1].first + array[k - 1].len

\* C23: with no fetch failure and a listing of N items, getCommits,
\* getIssues and getContributors return exactly the first
\* min(N, 100 * maxPages) items in upstream order, without gaps or
\* duplicates; when N is a multiple of 100 below the cap the pages
\* 1..N/100 + 1 are requested, the last one empty, and the result is still
\* the N items
C23_FirstItemsInOrder ==
    (col.kind \in Paginated /\ col.status = "returned" /\ col.failedAt = 0)
    => LET n == ListingSize(up, col.kind)
           cap == PerPage * MaxPagesOf(col.kind)
       IN /\ Length(col.result) = Min(n, cap)
          /\ Consecutive(col.result)
          /\ ItemIds(col.result) = 1..Min(n, cap)
          /\ (n % PerPage = 0 /\ n < cap)
                => /\ col.requests = [p \in 1..(n \div PerPage + 1) |-> p]
                   /\ ListPage(n, PerPage, Len(col.requests)).data.len = 0

\* getCommits of a listing of exactly 200 commits: three requests, 200 items
C23_Witness ==
    /\ col.kind = "commits"
    /\ col.status = "returned"
    /\ col.failedAt = 0
    /\ up.commits = 2 * PerPage
    /\ col.requests = <<1, 2, 3>>
    /\ Length(col.result) = 2 * PerPage

-----------------------------------------------------------------------------
(* Claims on the request budget *)

\* the upstream requests task t issues when its f-th request fails (0: none)
TaskRequests(u, t, f) ==
    CASE t \in {"repoDetails", "repoData"} -> 1
      [] t = "totals" -> 0
      [] t = "commits" -> Len(getCommits(u, f).requests)
      [] t = "issues" -> Len(getIssues(u, f).requests)
      [] t = "contributors" -> Len(getContributors(u, f).requests)
      [] t = "pullRequests" -> Len(getPullRequests(u, f # 0).requests)
      [] t = "releases" -> Len(getReleases(u, f # 0).requests)
      [] t \in Estimators -> EstimatorRun(u, t, f).requests

\* the requests a task of the running call has issued
RequestsOf(t) ==
    IF status[t] = "settled" THEN TaskRequests(up, t, failedAt[t]) ELSE 0

TotalRequests ==
    RequestsOf("repoDetails") + RequestsOf("commits") + RequestsOf("pullRequests")
    + RequestsOf("issues") + RequestsOf("releases") + RequestsOf("contributors")
    + RequestsOf("repoData") + RequestsOf("totalCommits")
    + RequestsOf("totalContributors") + RequestsOf("totalIssues")
    + RequestsOf("openIssues")

\* the listing an estimator reads and the page threshold of its estimate
CountedListing(e) ==
    CASE e = "totalCommits" -> "commits"
      [] e = "totalContributors" -> "contributors"
      [] e = "totalIssues" -> "issues"
      [] e = "openIssues" -> "openIssues"

ThresholdOf(e) ==
    CASE e = "totalCommits" -> CommitLargeRepoPages
      [] e = "totalContributors" -> ContributorLargeRepoPages
      [] e = "totalIssues" -> IssueLargeRepoPages
      [] e = "openIssues" -> OpenIssueLargeRepoPages

\* C24: whatever the repository size and whichever requests fail, the commit,
\* contributor and issue counts each issue at most 2 requests, the second
\* one (the last page) only when the disclosed last page is at most 50 / 10 /
\* 20; the open-issues count issues at most 10; one getRepositoryDetails
\* call issues at most 33 requests in total
C24_RequestBudget ==
    call.entry = "details" =>
        /\ \A e \in Estimators \ {"openIssues"} :
              /\ RequestsOf(e) <= 2
              /\ RequestsOf(e) = 2
                    => LastPage(ListingSize(up, CountedListing(e))) \in 2..ThresholdOf(e)
        /\ RequestsOf("openIssues") <= 10
        /\ TotalRequests <= 33

\* a call that returned after the full 33 requests
C24_Witness ==
    /\ call.entry = "details"
    /\ call.state = "returned"
    /\ TotalRequests = 33
    /\ RequestsOf("openIssues") = 10

-----------------------------------------------------------------------------
(* Claims on the estimates *)

\* the return statement the estimator e of the returned call took
PathTaken(e) == EstimatorRun(up, e, failedAt[e]).path

\* the smallest listing whose page 1 discloses the last page l
SmallestListing(l) == (l - 1) * PerPage + 1

\* C25: every value the commit, contributor or issue count returns on a
\* path labelled a conservative estimate (L*95, (L-1)*80+50, L*85 above the
\* thresholds; L*90 when the last-page request fails) is at most the
\* smallest item count consistent with the disclosed last page L,
\* (L-1)*100 + 1
C25_EstimatesConservative ==
    totals.state = "returned" =>
        \A e \in Estimators \ {"openIssues"} :
            PathTaken(e) \in EstimationPaths
                => totals[e] <= SmallestListing(LastPage(ListingSize(up, CountedListing(e))))

\* the run of the open-issues count of the returned call
OpenIssuesRun == EstimatorRun(up, "openIssues", failedAt["openIssues"])

\* C26: for an open-issues listing with last page L <= 10 and no failure,
\* getAccurateOpenIssuesCount returns exactly the number of items without
\* the pull-request marker, having requested page 1 and then each of the
\* pages 2..L once, in increasing order; when the request for a page
\* p >= 2 fails, no further page is requested and the value is at least the
\* count of pages 1..p-1
C26_OpenIssuesExact ==
    (totals.state = "returned" /\ LastPage(up.open) <= OpenIssueLargeRepoPages)
    => LET p == failedAt["openIssues"] IN
       /\ p = 0 => /\ totals.openIssues = Cardinality(ActualIssueIds(up, up.open))
                   /\ OpenIssuesRun.pages = [k \in 1..Max(1, LastPage(up.open)) |-> k]
       /\ p >= 2 => /\ OpenIssuesRun.pages = [k \in 1..p |-> k]
                    /\ totals.openIssues >= OpenIssuesUpToPage(up, p - 1)

\* ten pages of open issues, three in ten of them pull requests, all read
C26_Witness ==
    /\ totals.state = "returned"
    /\ failedAt["openIssues"] = 0
    /\ LastPage(up.open) = OpenIssueLargeRepoPages
    /\ up.prTenths = 3
    /\ totals.openIssues = Cardinality(ActualIssueIds(up, up.open))
    /\ totals.openIssues < up.open
    /\ OpenIssuesRun.requests = OpenIssueLargeRepoPages

-----------------------------------------------------------------------------
(* Further claims on the graph mirror *)

\* C27: createRepositoryGraph writes the document as a whole or not at all:
\* when one of its statements fails the database is left as it was before
\* the call and the error reaches the caller; when none fails every node
\* and relationship of the document is there; the session is closed in
\* both outcomes
C27_GraphWriteAtomic ==
    [][graph'.last.op = "create" =>
         /\ graph'.last.threw = (graph'.last.failedAt # 0)
         /\ graph'.last.threw
               => graph'.nodes = graph.nodes /\ graph'.rels = graph.rels
         /\ ~graph'.last.threw
               => /\ ProjectedNodes(graph'.last.doc) \subseteq graph'.nodes
                  /\ ProjectedRels(graph'.last.doc) \subseteq graph'.rels
         /\ ~graph'.last.sessionOpen]_vars

\* the call failed in its last step, after steps that had changed what the
\* namespace held, and the namespace is as the call found it
C27_Witness ==
    /\ graph.last.op = "create"
    /\ graph.last.threw
    /\ graph.last.failedAt = Len(TxSteps(graph.last.doc))
    /\ graph.last.found.nodes # {}
    /\ graph.last.found.nodes # ProjectedNodes(graph.last.doc)
    /\ Under(graph, graph.last.namespace) = graph.last.found

\* the steps of the transaction function, run one after the other, write
\* what the transaction function writes
TxRunIsRepositoryGraph ==
    \A doc \in GraphDocs :
        TxRun(graph, doc, Len(TxSteps(doc))).nodes = RepositoryGraph(graph, doc).nodes
        /\ TxRun(graph, doc, Len(TxSteps(doc))).rels = RepositoryGraph(graph, doc).rels

-----------------------------------------------------------------------------
(* Claims on the conversation routes *)

\* C28: a message request that is answered calls generateTitle and
\* updateConversation exactly when the posted message is the first message
\* of its conversation, which then carries the generated title; a later
\* message calls neither
C28_TitleOnFirstMessage ==
    chat.last.status = 200 =>
        LET first == chat.last.held = 0
            position == getConversation(chat.conversations, chat.last.conversationId)
        IN /\ ("generateTitle" \in chat.last.calls) = first
           /\ ("updateConversation" \in chat.last.calls) = first
           /\ first => \A k \in position :
                          chat.conversations[k].title = generateTitle(chat.last.content)

-----------------------------------------------------------------------------
(* Further claims on the select route *)

RepositoriesWithGithubId(githubId) ==
    {k \in 1..Len(repositories) : repositories[k].githubId = githubId}

\* C29: whatever the interleaving of concurrent select requests for the
\* same repository, the store holds at most one repository record per
\* upstream repository id and per full name, and the responses of the
\* requests name that one record
C29_OneRepositoryRecord ==
    \A i, j \in Selects :
        ( /\ i # j
          /\ Succeeded(reqs[i]) /\ Succeeded(reqs[j])
          /\ reqs[i].fullName = UpstreamFullName
          /\ reqs[j].fullName = UpstreamFullName
          /\ reqs[i].overlapped \/ reqs[j].overlapped )
        => /\ Cardinality(RepositoriesNamed(UpstreamFullName)) <= 1
           /\ \A k \in 1..Len(repositories) :
                 Cardinality(RepositoriesWithGithubId(repositories[k].githubId)) <= 1
           /\ reqs[i].response.repository = reqs[j].response.repository

-----------------------------------------------------------------------------
(* Further claims on getRepositoryDetails *)

\* C30: in every aggregate getRepositoryDetails returns, whatever the
\* upstream state and whichever requests fail, each reported total is at
\* least the number of items collected for that resource
C30_TotalsCoverCollected ==
    (call.entry = "details" /\ call.state = "returned")
    => /\ Aggregate.totals.totalCommits >= Length(Aggregate.commits)
       /\ Aggregate.totals.totalContributors >= Length(Aggregate.contributors)
       /\ Aggregate.totals.totalIssues >= Length(Aggregate.issues)

====
